---- MODULE Spec2Model ----
(***************************************************************************)
(* A model of the parquet page engine of duckdb-parquet-parser: the        *)
(* hybrid RLE/bit-pack codec, the compact tagged-struct (thrift) codec,    *)
(* the page writer and the reader (envelope, descriptor, page index,       *)
(* column reader, string iterator).  Bytes are integers 0..255 and files   *)
(* and buffers are sequences of bytes.                                     *)
(***************************************************************************)
EXTENDS Integers, Sequences, FiniteSets, TLC

VARIABLES
    \* RleBpEncoder / RleDecoder on their own
    rle_pc, rle_xs, rle_enc, rle_bytes, rle_out,
    \* ThriftWriter / ThriftReader on their own
    th_pc, th_w, th_r, th_op, th_got,
    \* a ParquetWriter: the object (with the file it writes), whether it has
    \* been destroyed, its last call, and the values handed to it per column
    writer, w_alive, w_call, w_written,
    \* a ParquetReader on the finished file: the object, how open() ended, the
    \* number of calls made on it and the last read call with its result
    reader, r_status, r_calls, r_res,
    \* a StringColumnIterator: the object, its state, the pair returned by the
    \* last next() with the bytes the caller read through it, and the strings
    \* next() has taken from the page buffer so far
    iter, it_status, it_last, it_yielded,
    \* a PageIterator: the object, its state, the page returned by the last
    \* next() and the ids of the pages returned since construction or reset()
    pit, pit_status, pit_last, pit_ids,
    \* build_column_info on its own: the schema tree it is given
    sch_in,
    \* read_data_page on its own: the page it is given and what it returned
    dp_in, dp_out,
    \* the writer's analysis of one column on its own: the column it is given
    \* and what analyze_column or compute_page_boundaries returned
    col_in, col_out

rleVars == <<rle_pc, rle_xs, rle_enc, rle_bytes, rle_out>>
thriftVars == <<th_pc, th_w, th_r, th_op, th_got>>
writerVars == <<writer, w_alive, w_call, w_written>>
readerVars == <<reader, r_status, r_calls, r_res>>
iterVars == <<iter, it_status, it_last, it_yielded>>
fileVars == <<writerVars, readerVars, iterVars>>
pitVars == <<pit, pit_status, pit_last, pit_ids>>
unitVars == <<sch_in, dp_in, dp_out, col_in, col_out>>
vars == <<rleVars, thriftVars, fileVars, pitVars, unitVars>>

----------------------------------------------------------------------------
(* Generic helpers *)

Min(a, b) == IF a < b THEN a ELSE b
Max(a, b) == IF a > b THEN a ELSE b

RECURSIVE Repeat(_, _)
Repeat(v, n) == IF n <= 0 THEN <<>> ELSE <<v>> \o Repeat(v, n - 1)

\* bit b (0-based) of the non-negative integer v
BitOf(v, b) == (v \div (2 ^ b)) % 2

----------------------------------------------------------------------------
(* RleBpEncoder: src/include/writer/rle_bp_encoder.hpp *)

MINIMUM_RLE_COUNT == 4
BP_BLOCK_SIZE == 8

RleBpEncoder(bit_width) ==
    [bit_width |-> bit_width, byte_width |-> (bit_width + 7) \div 8,
     rle_count |-> 0, rle_value |-> 0, bp_buffer |-> <<>>, result |-> <<>>]

\* unsigned base-128 varint of a 32-bit value
RECURSIVE WriteVarint(_)
WriteVarint(value) ==
    IF value >= 128 THEN <<(value % 128) + 128>> \o WriteVarint(value \div 128)
    ELSE <<value>>

\* the low byte_width bytes of val, little-endian
RECURSIVE LEBytes(_, _)
LEBytes(val, n) ==
    IF n = 0 THEN <<>> ELSE <<val % 256>> \o LEBytes(val \div 256, n - 1)

FlushRle(e) ==
    [e EXCEPT !.result = @ \o WriteVarint(e.rle_count * 2) \o LEBytes(e.rle_value, e.byte_width),
              !.rle_count = 0]

\* the bits of the values, each bit_width bits, least-significant bit first
RECURSIVE ValueBits(_, _)
ValueBits(values, bw) ==
    IF values = <<>> THEN <<>>
    ELSE [b \in 1..bw |-> BitOf(Head(values), b - 1)] \o ValueBits(Tail(values), bw)

\* byte k (0-based) of a bit string, bit 8k first, missing bits zero
BitsByte(bits, k) ==
    LET bit(j) == IF 8 * k + j + 1 <= Len(bits) THEN bits[8 * k + j + 1] ELSE 0
    IN  bit(0) + 2 * bit(1) + 4 * bit(2) + 8 * bit(3) + 16 * bit(4)
        + 32 * bit(5) + 64 * bit(6) + 128 * bit(7)

PackValues(values, bw) ==
    LET total_bits == Len(values) * bw
        total_bytes == (total_bits + 7) \div 8
        bits == ValueBits(values, bw)
    IN  [k \in 1..total_bytes |-> BitsByte(bits, k - 1)]

FlushBitPacked(e) ==
    [e EXCEPT !.result = @ \o WriteVarint(3) \o PackValues(e.bp_buffer, e.bit_width),
              !.bp_buffer = <<>>]

FlushBitPackedPartial(e) ==
    FlushBitPacked([e EXCEPT !.bp_buffer = @ \o Repeat(0, BP_BLOCK_SIZE - Len(@))])

FlushIfFull(e) == IF Len(e.bp_buffer) = BP_BLOCK_SIZE THEN FlushBitPacked(e) ELSE e

WriteValue(e, value) ==
    IF Len(e.bp_buffer) # 0 THEN
        FlushIfFull([e EXCEPT !.bp_buffer = Append(@, value)])
    ELSE IF e.rle_count = 0 THEN
        [e EXCEPT !.rle_value = value, !.rle_count = 1]
    ELSE IF e.rle_value = value THEN
        [e EXCEPT !.rle_count = @ + 1]
    ELSE IF e.rle_count >= MINIMUM_RLE_COUNT THEN
        [FlushRle(e) EXCEPT !.rle_value = value, !.rle_count = 1]
    ELSE
        FlushIfFull([e EXCEPT !.bp_buffer = Repeat(e.rle_value, e.rle_count) \o <<value>>,
                              !.rle_count = 0])

\* the bytes FinishWrite appends to its output
FinishWrite(e) ==
    IF e.rle_count > 0 THEN FlushRle(e).result
    ELSE IF Len(e.bp_buffer) > 0 THEN FlushBitPackedPartial(e).result
    ELSE e.result

----------------------------------------------------------------------------
(* RleDecoder: src/include/rle_decoder.hpp.  data is the byte range         *)
(* (data_, size_); positions are 0-based as in the source.  oob records a  *)
(* literal read beyond the range, which the source does not check.         *)

RleDecoder ==
    [pos |-> 0, repeat_count |-> 0, literal_count |-> 0, current_value |-> 0,
     literal_pos |-> 0, literal_bit_offset |-> 0, oob |-> FALSE]

\* [val, pos]: the varint at pos, stopping at the end of the range
RECURSIVE read_varint32(_, _, _, _)
read_varint32(data, pos, shift, acc) ==
    IF pos >= Len(data) THEN [val |-> acc, pos |-> pos]
    ELSE LET b == data[pos + 1]
             r == acc + (b % 128) * (2 ^ shift)
         IN  IF b < 128 THEN [val |-> r, pos |-> pos + 1]
             ELSE read_varint32(data, pos + 1, shift + 7, r)

RECURSIVE read_fixed_width_value(_, _, _, _, _)
read_fixed_width_value(data, pos, i, bytes_needed, acc) ==
    IF i < bytes_needed /\ pos < Len(data)
    THEN read_fixed_width_value(data, pos + 1, i + 1, bytes_needed,
                                acc + data[pos + 1] * (2 ^ (8 * i)))
    ELSE [val |-> acc, pos |-> pos]

\* [ok, d]: ok is the source's return value
next_counts(data, bw, d) ==
    IF d.pos >= Len(data) THEN [ok |-> FALSE, d |-> d]
    ELSE LET ind == read_varint32(data, d.pos, 0, 0) IN
         IF ind.val % 2 = 1 THEN
            [ok |-> TRUE,
             d |-> [d EXCEPT !.pos = ind.pos, !.literal_count = (ind.val \div 2) * 8,
                             !.literal_pos = ind.pos, !.literal_bit_offset = 0]]
         ELSE
            LET fv == read_fixed_width_value(data, ind.pos, 0, (bw + 7) \div 8, 0) IN
            [ok |-> TRUE,
             d |-> [d EXCEPT !.pos = fv.pos, !.repeat_count = ind.val \div 2,
                             !.current_value = fv.val]]

\* bit (0-based) off of the literal run starting at literal_pos
LiteralBit(data, d, off) ==
    LET idx == d.literal_pos + (off \div 8) IN
    IF idx < Len(data) THEN BitOf(data[idx + 1], off % 8) ELSE 0

LiteralInRange(data, d, bw) ==
    bw = 0 \/ d.literal_pos + ((d.literal_bit_offset + bw - 1) \div 8) < Len(data)

RECURSIVE LiteralValue(_, _, _, _)
LiteralValue(data, d, bw, i) ==
    IF i >= bw THEN 0
    ELSE LiteralBit(data, d, d.literal_bit_offset + i) * (2 ^ i)
         + LiteralValue(data, d, bw, i + 1)

\* a decoder that leaves pos at the start of a literal run it has used up
read_literal_value_NoAdvance(data, bw, d) ==
    IF bw = 0 THEN [val |-> 0, d |-> d]
    ELSE [val |-> LiteralValue(data, d, bw, 0),
          d |-> [d EXCEPT !.literal_bit_offset = @ + bw]]

\* [val, d]
read_literal_value(data, bw, d) ==
    IF bw = 0 THEN [val |-> 0, d |-> d]
    ELSE LET off2 == d.literal_bit_offset + bw
             d1 == [d EXCEPT !.literal_bit_offset = off2,
                             !.oob = @ \/ ~LiteralInRange(data, d, bw)]
         IN  [val |-> LiteralValue(data, d, bw, 0),
              d |-> IF d.literal_count = 1
                    THEN [d1 EXCEPT !.pos = d.literal_pos + ((off2 + 7) \div 8)]
                    ELSE d1]

\* [out, d, short]: short is TRUE when the stream ran out and zeros were substituted
RECURSIVE get_batch(_, _, _, _, _)
get_batch(data, bw, d, count, out) ==
    IF Len(out) >= count THEN [out |-> out, d |-> d, short |-> FALSE]
    ELSE
      LET nc == IF d.repeat_count = 0 /\ d.literal_count = 0
                THEN next_counts(data, bw, d) ELSE [ok |-> TRUE, d |-> d]
      IN
      IF ~nc.ok THEN [out |-> out \o Repeat(0, count - Len(out)), d |-> nc.d, short |-> TRUE]
      ELSE IF nc.d.repeat_count > 0 THEN
          get_batch(data, bw, [nc.d EXCEPT !.repeat_count = @ - 1], count,
                    Append(out, nc.d.current_value))
      ELSE
          LET lv == read_literal_value(data, bw, nc.d) IN
          get_batch(data, bw, [lv.d EXCEPT !.literal_count = @ - 1], count,
                    Append(out, lv.val))

----------------------------------------------------------------------------
(* Thrift compact type tags: src/include/common.hpp *)

CT_STOP == 0
CT_BOOLEAN_TRUE == 1
CT_BOOLEAN_FALSE == 2
CT_I8 == 3
CT_I16 == 4
CT_I32 == 5
CT_I64 == 6
CT_DOUBLE == 7
CT_BINARY == 8
CT_LIST == 9
CT_SET == 10
CT_MAP == 11
CT_STRUCT == 12

\* a 16-bit signed value of an integer (field ids and deltas are int16_t)
Int16(x) == ((x + 32768) % 65536) - 32768

----------------------------------------------------------------------------
(* ByteBuffer and ThriftReader: src/include/common.hpp, src/include/thrift.hpp. *)
(* A reader is [pos, last_field_id, field_id_stack, ok] over a buffer; ok     *)
(* turns FALSE when ByteBuffer::check (or skip) throws, and stays FALSE.      *)

ThriftReader == [pos |-> 0, last_field_id |-> 0, field_id_stack |-> <<>>, ok |-> TRUE]

Thrown(r) == [r EXCEPT !.ok = FALSE]

\* ByteBuffer::check
check(buf, r, n) == r.ok /\ r.pos + n <= Len(buf)

read_byte(buf, r) ==
    IF check(buf, r, 1) THEN [r |-> [r EXCEPT !.pos = @ + 1], v |-> buf[r.pos + 1]]
    ELSE [r |-> Thrown(r), v |-> 0]

read_bytes(buf, r, n) ==
    IF check(buf, r, n) THEN [r |-> [r EXCEPT !.pos = @ + n], v |-> SubSeq(buf, r.pos + 1, r.pos + n)]
    ELSE [r |-> Thrown(r), v |-> <<>>]

\* ByteBuffer::read_varint
RECURSIVE read_varint_loop(_, _, _, _)
read_varint_loop(buf, r, shift, acc) ==
    LET with_byte(b) ==
            IF ~b.r.ok THEN [r |-> b.r, v |-> 0]
            ELSE IF b.v < 128 THEN [r |-> b.r, v |-> acc + (b.v % 128) * (2 ^ shift)]
            ELSE IF shift + 7 > 63 THEN [r |-> Thrown(b.r), v |-> 0]
            ELSE read_varint_loop(buf, b.r, shift + 7, acc + (b.v % 128) * (2 ^ shift))
    IN  with_byte(read_byte(buf, r))

read_varint(buf, r) == read_varint_loop(buf, r, 0, 0)

\* (v >> 1) ^ -(v & 1)
ZigZagDecode(v) == IF v % 2 = 0 THEN v \div 2 ELSE -((v + 1) \div 2)

read_zigzag(buf, r) ==
    LET decoded(x) == [r |-> x.r, v |-> ZigZagDecode(x.v)] IN decoded(read_varint(buf, r))

read_i32(buf, r) == read_zigzag(buf, r)
read_i64(buf, r) == read_zigzag(buf, r)

read_string(buf, r) ==
    LET of_length(len) == read_bytes(buf, len.r, len.v) IN of_length(read_varint(buf, r))

read_bool(type_from_header) == type_from_header = CT_BOOLEAN_TRUE

\* [r, field_id, type]
read_field_begin(buf, r) ==
    LET header(rd, fid, type) ==
            [r |-> [rd EXCEPT !.last_field_id = fid], field_id |-> fid, type |-> type]
        long_form(z, type) == header(z.r, Int16(z.v), type)
        with_byte(b) ==
            IF ~b.r.ok \/ b.v = CT_STOP THEN [r |-> b.r, field_id |-> 0, type |-> CT_STOP]
            ELSE IF b.v \div 16 # 0
            THEN header(b.r, Int16(r.last_field_id + b.v \div 16), b.v % 16)
            ELSE long_form(read_zigzag(buf, b.r), b.v % 16)
    IN  with_byte(read_byte(buf, r))

\* a list header read without its long form: a size nibble of 15 is the count
read_list_begin_ShortOnly(buf, r) ==
    LET with_byte(b) == [r |-> b.r, elem_type |-> b.v % 16, count |-> b.v \div 16]
    IN  with_byte(read_byte(buf, r))

\* [r, elem_type, count]
read_list_begin(buf, r) ==
    LET long_form(c, elem_type) == [r |-> c.r, elem_type |-> elem_type, count |-> c.v]
        with_byte(b) ==
            IF b.v \div 16 = 15 THEN long_form(read_varint(buf, b.r), b.v % 16)
            ELSE [r |-> b.r, elem_type |-> b.v % 16, count |-> b.v \div 16]
    IN  with_byte(read_byte(buf, r))

read_struct_begin(r) ==
    [r EXCEPT !.field_id_stack = Append(@, r.last_field_id), !.last_field_id = 0]

\* a reader that forgets to restore the counter when a struct ends
read_struct_end_KeepsCounter(r) ==
    IF r.field_id_stack = <<>> THEN Thrown(r)
    ELSE [r EXCEPT !.field_id_stack = SubSeq(@, 1, Len(@) - 1)]

read_struct_end(r) ==
    IF r.field_id_stack = <<>> THEN Thrown(r)
    ELSE [r EXCEPT !.last_field_id = r.field_id_stack[Len(r.field_id_stack)],
                   !.field_id_stack = SubSeq(@, 1, Len(@) - 1)]

RECURSIVE skip(_, _, _)
RECURSIVE skip_elems(_, _, _, _)
RECURSIVE skip_pairs(_, _, _, _, _)
RECURSIVE skip_fields(_, _)

\* ThriftReader::skip: the reader after a value of the given type
skip(buf, r, type) ==
    LET list(lh) == skip_elems(buf, lh.r, lh.elem_type, lh.count)
        pairs(kv, n) == skip_pairs(buf, kv.r, kv.v \div 16, kv.v % 16, n)
        map(c) == IF c.v > 0 THEN pairs(read_byte(buf, c.r), c.v) ELSE c.r
    IN
    IF ~r.ok THEN r
    ELSE IF type \in {CT_BOOLEAN_TRUE, CT_BOOLEAN_FALSE} THEN r
    ELSE IF type = CT_I8 THEN read_byte(buf, r).r
    ELSE IF type \in {CT_I16, CT_I32, CT_I64} THEN read_varint(buf, r).r
    ELSE IF type = CT_DOUBLE THEN read_bytes(buf, r, 8).r
    ELSE IF type = CT_BINARY THEN read_string(buf, r).r
    ELSE IF type \in {CT_LIST, CT_SET} THEN list(read_list_begin(buf, r))
    ELSE IF type = CT_MAP THEN map(read_varint(buf, r))
    ELSE IF type = CT_STRUCT THEN read_struct_end(skip_fields(buf, read_struct_begin(r)))
    ELSE Thrown(r)

skip_elems(buf, r, type, n) ==
    IF n <= 0 \/ ~r.ok THEN r ELSE skip_elems(buf, skip(buf, r, type), type, n - 1)

skip_pairs(buf, r, kt, vt, n) ==
    IF n <= 0 \/ ~r.ok THEN r
    ELSE skip_pairs(buf, skip(buf, skip(buf, r, kt), vt), kt, vt, n - 1)

skip_fields(buf, r) ==
    LET field(fh) == IF ~fh.r.ok \/ fh.type = CT_STOP THEN fh.r
                     ELSE skip_fields(buf, skip(buf, fh.r, fh.type))
    IN  field(read_field_begin(buf, r))


----------------------------------------------------------------------------
(* ThriftWriter: src/src/writer/thrift_writer.cpp.                          *)
(* A writer is [buf, last_field_id, field_id_stack].                        *)

ThriftWriter == [buf |-> <<>>, last_field_id |-> 0, field_id_stack |-> <<>>]

write_byte(tw, b) == [tw EXCEPT !.buf = Append(@, b)]
write_raw_bytes(tw, data) == [tw EXCEPT !.buf = @ \o data]

RECURSIVE VarintBytes(_)
VarintBytes(value) ==
    IF value >= 128 THEN <<(value % 128) + 128>> \o VarintBytes(value \div 128)
    ELSE <<value>>

write_varint(tw, value) == write_raw_bytes(tw, VarintBytes(value))

\* (value << 1) ^ (value >> 63)
ZigZagEncode(value) == IF value >= 0 THEN 2 * value ELSE -2 * value - 1

write_zigzag(tw, value) == write_varint(tw, ZigZagEncode(value))

write_field(tw, field_id, type) ==
    LET delta == Int16(field_id - tw.last_field_id)
        t1 == IF delta > 0 /\ delta <= 15
              THEN write_byte(tw, delta * 16 + type)
              ELSE write_zigzag(write_byte(tw, type), field_id)
    IN  [t1 EXCEPT !.last_field_id = field_id]

write_bool(tw, field_id, value) ==
    write_field(tw, field_id, IF value THEN CT_BOOLEAN_TRUE ELSE CT_BOOLEAN_FALSE)

write_i32(tw, field_id, value) == write_zigzag(write_field(tw, field_id, CT_I32), value)

write_i64(tw, field_id, value) == write_zigzag(write_field(tw, field_id, CT_I64), value)

write_string(tw, field_id, value) ==
    write_raw_bytes(write_varint(write_field(tw, field_id, CT_BINARY), Len(value)), value)

write_list_begin(tw, field_id, elem_type, count) ==
    LET header(t1) == IF count < 15 THEN write_byte(t1, count * 16 + elem_type)
                      ELSE write_varint(write_byte(t1, 240 + elem_type), count)
    IN  header(write_field(tw, field_id, CT_LIST))

push_field_state(tw) ==
    [tw EXCEPT !.field_id_stack = Append(@, tw.last_field_id), !.last_field_id = 0]

pop_field_state(tw) ==
    [tw EXCEPT !.last_field_id = tw.field_id_stack[Len(tw.field_id_stack)],
               !.field_id_stack = SubSeq(@, 1, Len(@) - 1)]

write_struct_begin(tw, field_id) == push_field_state(write_field(tw, field_id, CT_STRUCT))

write_stop(tw) == write_byte(tw, CT_STOP)

write_struct_end(tw) == pop_field_state(write_stop(tw))

----------------------------------------------------------------------------
(* Enumerations: src/include/common.hpp *)

Type_BOOLEAN == 0
Type_INT32 == 1
Type_INT64 == 2
Type_BYTE_ARRAY == 6

Encoding_PLAIN == 0
Encoding_PLAIN_DICTIONARY == 2
Encoding_RLE == 3
Encoding_RLE_DICTIONARY == 8

UNCOMPRESSED == 0
SNAPPY == 1

DATA_PAGE == 0
DICTIONARY_PAGE == 2
DATA_PAGE_V2 == 3

REQUIRED == 0
OPTIONAL == 1
REPEATED == 2

\* Value: a null carries no data; its data field holds a default of the
\* column's type so that values of one column stay comparable
NullValue(type) ==
    [is_null |-> TRUE,
     data |-> IF type = Type_BOOLEAN THEN FALSE
              ELSE IF type = Type_BYTE_ARRAY THEN <<>> ELSE 0]

ValueOf(d) == [is_null |-> FALSE, data |-> d]

\* the number of significant bits of v: while (v > 0) { bw++; v >>= 1; }
RECURSIVE BitLen(_)
BitLen(v) == IF v <= 0 THEN 0 ELSE 1 + BitLen(v \div 2)

\* memcpy of n little-endian bytes into a signed integer, from the top byte
\* down; a negative value is -1 - sum (255 - b_k) 256^k
RECURSIVE LEHorner(_, _, _, _)
LEHorner(bytes, k, acc, bias) ==
    IF k = 0 THEN acc ELSE LEHorner(bytes, k - 1, acc * 256 + bytes[k] - bias, bias)

LESigned(bytes) ==
    IF bytes[Len(bytes)] >= 128 THEN LEHorner(bytes, Len(bytes), 0, 255) - 1
    ELSE LEHorner(bytes, Len(bytes), 0, 0)

\* memcpy of 4 little-endian bytes into a uint32_t; a value of 2^31 or more
\* is larger than every buffer of the model and is kept as 2^31 - 1
LEUnsigned32(bytes) ==
    IF bytes[4] >= 128 THEN 2147483647 ELSE LEHorner(bytes, 4, 0, 0)

----------------------------------------------------------------------------
(* ParquetWriter: src/src/writer/parquet_writer.cpp *)

MAX_UNCOMPRESSED_PAGE_SIZE == 1024

PAR1 == <<80, 65, 82, 49>>

compute_bit_width(max_value) == IF max_value = 0 THEN 1 ELSE BitLen(max_value)

\* an estimate that forgets the length prefix of a string
estimate_row_size_NoPrefix(v, type) ==
    IF v.is_null THEN 0
    ELSE IF type = Type_BOOLEAN THEN 1
    ELSE IF type = Type_INT32 THEN 4
    ELSE IF type = Type_INT64 THEN 8
    ELSE IF type = Type_BYTE_ARRAY THEN Len(v.data)
    ELSE 0

estimate_row_size(v, type) ==
    IF v.is_null THEN 0
    ELSE IF type = Type_BOOLEAN THEN 1
    ELSE IF type = Type_INT32 THEN 4
    ELSE IF type = Type_INT64 THEN 8
    ELSE IF type = Type_BYTE_ARRAY THEN 4 + Len(v.data)
    ELSE 0

\* pages are [offset, count], offset 0-based as in the source; p is the state
\* of the loop, [page_start, estimated_size, pages]
RECURSIVE page_boundaries_loop(_, _, _, _)
page_boundaries_loop(values, type, i, p) ==
    CASE i >= Len(values) /\ p.page_start < Len(values) ->
            Append(p.pages, [offset |-> p.page_start, count |-> Len(values) - p.page_start])
      [] i >= Len(values) /\ p.page_start >= Len(values) -> p.pages
      [] i < Len(values)
            /\ p.estimated_size + estimate_row_size(values[i + 1], type)
                   >= MAX_UNCOMPRESSED_PAGE_SIZE ->
            page_boundaries_loop(values, type, i + 1,
                [page_start |-> i + 1, estimated_size |-> 0,
                 pages |-> Append(p.pages, [offset |-> p.page_start,
                                            count |-> i - p.page_start + 1])])
      [] OTHER ->
            page_boundaries_loop(values, type, i + 1,
                [p EXCEPT !.estimated_size = @ + estimate_row_size(values[i + 1], type)])

compute_page_boundaries(values, type) ==
    IF values = <<>> THEN <<>>
    ELSE page_boundaries_loop(values, type, 0,
                              [page_start |-> 0, estimated_size |-> 0, pages |-> <<>>])

RECURSIVE page_boundaries_dict_loop(_, _, _)
page_boundaries_dict_loop(num_values, values_per_page, offset) ==
    IF offset >= num_values THEN <<>>
    ELSE <<[offset |-> offset, count |-> Min(values_per_page, num_values - offset)]>>
         \o page_boundaries_dict_loop(num_values, values_per_page, offset + values_per_page)

compute_page_boundaries_dict(num_values, bit_width) ==
    LET bytes_per_value == Max(1, (bit_width + 7) \div 8)
        vpp == MAX_UNCOMPRESSED_PAGE_SIZE \div bytes_per_value
    IN  IF num_values = 0 THEN <<>>
        ELSE page_boundaries_dict_loop(num_values, IF vpp = 0 THEN 1 ELSE vpp, 0)

\* the length of the run of equal levels starting at position i (0-based)
RECURSIVE run_length(_, _, _)
run_length(levels, i, run_len) ==
    IF i + run_len < Len(levels) /\ levels[i + run_len + 1] = levels[i + 1]
    THEN run_length(levels, i, run_len + 1) ELSE run_len

RECURSIVE rle_encode_levels_loop(_, _, _)
rle_encode_levels_loop(levels, value_bytes, i) ==
    IF i >= Len(levels) THEN <<>>
    ELSE LET run_len == run_length(levels, i, 1) IN
         WriteVarint(run_len * 2) \o LEBytes(levels[i + 1], value_bytes)
         \o rle_encode_levels_loop(levels, value_bytes, i + run_len)

rle_encode_levels(levels, bit_width) ==
    IF levels = <<>> \/ bit_width = 0 THEN <<>>
    ELSE rle_encode_levels_loop(levels, (bit_width + 7) \div 8, 0)

\* the bytes of one non-null value
plain_encode_value(v, type) ==
    IF type = Type_BOOLEAN THEN <<IF v.data THEN 1 ELSE 0>>
    ELSE IF type = Type_INT32 THEN LEBytes(v.data, 4)
    ELSE IF type = Type_INT64 THEN LEBytes(v.data, 8)
    ELSE LEBytes(Len(v.data), 4) \o v.data

RECURSIVE plain_encode_values(_, _)
plain_encode_values(values, type) ==
    IF values = <<>> THEN <<>>
    ELSE (IF Head(values).is_null THEN <<>> ELSE plain_encode_value(Head(values), type))
         \o plain_encode_values(Tail(values), type)

\* the length-prefixed definition levels of a page, nothing for a REQUIRED column
length_prefixed(rle_data) == LEBytes(Len(rle_data), 4) \o rle_data

def_levels_payload(values, max_def_level) ==
    IF max_def_level > 0
    THEN length_prefixed(rle_encode_levels(
             [i \in 1..Len(values) |-> IF values[i].is_null THEN 0 ELSE max_def_level],
             BitLen(max_def_level)))
    ELSE <<>>

\* one call on a ThriftWriter, as the writer's code makes it: W("write_i32", <<1, 2>>)
\* is tw.write_i32(1, 2)
W(call, args) == [call |-> call, args |-> args]

\* the ThriftWriter after one call
thrift_call(tw, c) ==
    CASE c.call = "write_i32" -> write_i32(tw, c.args[1], c.args[2])
      [] c.call = "write_i64" -> write_i64(tw, c.args[1], c.args[2])
      [] c.call = "write_string" -> write_string(tw, c.args[1], c.args[2])
      [] c.call = "write_list_begin" -> write_list_begin(tw, c.args[1], c.args[2], c.args[3])
      [] c.call = "write_struct_begin" -> write_struct_begin(tw, c.args[1])
      [] c.call = "write_struct_end" -> write_struct_end(tw)
      [] c.call = "write_stop" -> write_stop(tw)
      [] c.call = "push_field_state" -> push_field_state(tw)
      [] c.call = "pop_field_state" -> pop_field_state(tw)
      [] c.call = "write_zigzag_raw" -> write_zigzag(tw, c.args[1])
      [] c.call = "write_varint_raw" -> write_varint(tw, c.args[1])
      [] c.call = "write_raw" -> write_raw_bytes(tw, c.args[1])

\* the calls of a function body made one after the other, in program order:
\* st is [tw, pc], pc the position of the next call
RECURSIVE thrift_calls(_, _)
thrift_calls(st, calls) ==
    IF st.pc > Len(calls) THEN st.tw
    ELSE thrift_calls([tw |-> thrift_call(st.tw, calls[st.pc]), pc |-> st.pc + 1], calls)

\* ThriftWriter tw; the calls; tw.data()
thrift_bytes(calls) == thrift_calls([tw |-> ThriftWriter, pc |-> 1], calls).buf

\* the page header the writer emits for a data page
data_page_header_bytes(page_size, num_values, encoding) ==
    thrift_bytes(<<W("write_i32", <<1, DATA_PAGE>>),
                   W("write_i32", <<2, page_size>>),
                   W("write_i32", <<3, page_size>>),
                   W("write_struct_begin", <<5>>),
                   W("write_i32", <<1, num_values>>),
                   W("write_i32", <<2, encoding>>),
                   W("write_i32", <<3, Encoding_RLE>>),
                   W("write_i32", <<4, Encoding_RLE>>),
                   W("write_struct_end", <<>>),
                   W("write_stop", <<>>)>>)

\* [header, payload]: the page is header \o payload
data_page(page_payload, num_values, encoding) ==
    [header |-> data_page_header_bytes(Len(page_payload), num_values, encoding),
     payload |-> page_payload]

encode_data_page(values, type, max_def_level) ==
    data_page(def_levels_payload(values, max_def_level) \o plain_encode_values(values, type),
              Len(values), Encoding_PLAIN)

\* the loop of analyze_column: d is [dict_values, num_non_null], the distinct
\* non-null values in order of first occurrence and the number of non-null
\* values met so far
RECURSIVE distinct_values(_, _)
distinct_values(values, d) ==
    CASE values = <<>> -> d
      [] values # <<>> /\ Head(values).is_null -> distinct_values(Tail(values), d)
      [] values # <<>> /\ ~Head(values).is_null
            /\ \E i \in 1..Len(d.dict_values) : d.dict_values[i].data = Head(values).data ->
            distinct_values(Tail(values), [d EXCEPT !.num_non_null = @ + 1])
      [] OTHER ->
            distinct_values(Tail(values),
                            [dict_values |-> Append(d.dict_values, Head(values)),
                             num_non_null |-> d.num_non_null + 1])

\* a threshold that refuses the dictionary at exactly a fifth
dictionary_result_Strict(d) ==
    IF Len(d.dict_values) = 0 \/ Len(d.dict_values) >= d.num_non_null \div 5
    THEN [use_dictionary |-> FALSE, dict_values |-> <<>>]
    ELSE [use_dictionary |-> TRUE, dict_values |-> d.dict_values]

\* the decision of analyze_column on the distinct values d
dictionary_result(d) ==
    IF Len(d.dict_values) = 0 \/ Len(d.dict_values) > d.num_non_null \div 5
    THEN [use_dictionary |-> FALSE, dict_values |-> <<>>]
    ELSE [use_dictionary |-> TRUE, dict_values |-> d.dict_values]

\* DictionaryResult: [use_dictionary, dict_values]; dict_map is the position
\* of a value in dict_values, counted from 0
analyze_column(values) ==
    dictionary_result(distinct_values(values, [dict_values |-> <<>>, num_non_null |-> 0]))

dict_map(dict, v) == (CHOOSE i \in 1..Len(dict.dict_values) : dict.dict_values[i].data = v.data) - 1

\* the dictionary page around its payload: [header, payload]
dictionary_page(payload, dict_size) ==
    [header |-> thrift_bytes(<<W("write_i32", <<1, DICTIONARY_PAGE>>),
                               W("write_i32", <<2, Len(payload)>>),
                               W("write_i32", <<3, Len(payload)>>),
                               W("write_struct_begin", <<7>>),
                               W("write_i32", <<1, dict_size>>),
                               W("write_i32", <<2, Encoding_PLAIN_DICTIONARY>>),
                               W("write_struct_end", <<>>),
                               W("write_stop", <<>>)>>),
     payload |-> payload]

encode_dictionary_page(dict, type) ==
    dictionary_page(plain_encode_values(dict.dict_values, type), Len(dict.dict_values))

\* the encoder after the dictionary ids of the non-null values
RECURSIVE write_indices(_, _, _)
write_indices(encoder, values, dict) ==
    IF values = <<>> THEN encoder
    ELSE write_indices(IF Head(values).is_null THEN encoder
                       ELSE WriteValue(encoder, dict_map(dict, Head(values))),
                       Tail(values), dict)

\* bit_width = compute_bit_width(dict_size > 0 ? dict_size - 1 : 0)
dict_bit_width(dict_size) == compute_bit_width(IF dict_size > 0 THEN dict_size - 1 ELSE 0)

\* the payload of a dictionary-encoded data page from the width of the ids on
indices_payload(bit_width, values, dict) ==
    <<bit_width>> \o FinishWrite(write_indices(RleBpEncoder(bit_width), values, dict))

\* [header, payload]
encode_dict_data_page(values, dict, max_def_level) ==
    data_page(def_levels_payload(values, max_def_level)
                  \o indices_payload(dict_bit_width(Len(dict.dict_values)), values, dict),
              Len(values), Encoding_RLE_DICTIONARY)

\* one data page of a chunk: [header, payload]
encode_page(slice, type, max_def_level, dict) ==
    IF dict.use_dictionary THEN encode_dict_data_page(slice, dict, max_def_level)
    ELSE encode_data_page(slice, type, max_def_level)

\* the data pages of one chunk written one after the other:
\* [file, emitted], emitted (bookkeeping of the model, not of the writer)
\* listing where each data page's payload went
RECURSIVE write_pages(_, _, _, _, _, _, _)
write_pages(file, emitted, values, page_boundaries, type, max_def_level, dict) ==
    IF page_boundaries = <<>> THEN [file |-> file, emitted |-> emitted]
    ELSE LET pb == Head(page_boundaries)
             write_page(page) ==
                 write_pages(file \o page.header \o page.payload,
                             Append(emitted, [data_offset |-> Len(file) + Len(page.header),
                                              data_size |-> Len(page.payload)]),
                             values, Tail(page_boundaries), type, max_def_level, dict)
         IN  write_page(encode_page(SubSeq(values, pb.offset + 1, pb.offset + pb.count),
                                    type, max_def_level, dict))

\* the ColumnChunkMeta of a chunk that began at col_start, and the file after it
column_chunk(w, col_start, num_values, data_page_offset, dictionary_page_offset, encoding) ==
    [file |-> w.file, emitted |-> w.emitted,
     cm |-> [data_page_offset |-> data_page_offset,
             total_uncompressed_size |-> Len(w.file) - col_start,
             total_compressed_size |-> Len(w.file) - col_start,
             num_values |-> num_values,
             dictionary_page_offset |-> dictionary_page_offset,
             encoding |-> encoding]]

\* a dictionary chunk whose data_page_offset is the chunk start
write_dict_chunk_DataAtStart(file1, col_start, col_spec, col_values, max_def_level, dict) ==
    column_chunk(write_pages(file1, <<>>, col_values,
                             compute_page_boundaries_dict(Len(col_values),
                                 dict_bit_width(Len(dict.dict_values))),
                             col_spec.type, max_def_level, dict),
                 col_start, Len(col_values), col_start, col_start, Encoding_RLE_DICTIONARY)

\* the dictionary branch of write_row_group, file1 the file after the dictionary page
write_dict_chunk(file1, col_start, col_spec, col_values, max_def_level, dict) ==
    column_chunk(write_pages(file1, <<>>, col_values,
                             compute_page_boundaries_dict(Len(col_values),
                                 dict_bit_width(Len(dict.dict_values))),
                             col_spec.type, max_def_level, dict),
                 col_start, Len(col_values), Len(file1), col_start, Encoding_RLE_DICTIONARY)

\* the plain branch of write_row_group
write_plain_chunk(file, col_spec, col_values, max_def_level, dict) ==
    column_chunk(write_pages(file, <<>>, col_values,
                             compute_page_boundaries(col_values, col_spec.type),
                             col_spec.type, max_def_level, dict),
                 Len(file), Len(col_values), Len(file), -1, Encoding_PLAIN)

\* one column of write_row_group: [file, cm, emitted]
write_column_chunk(file, col_spec, col_values) ==
    LET max_def_level == IF col_spec.repetition = OPTIONAL THEN 1 ELSE 0
        after_dict_page(dict, dict_page) ==
            write_dict_chunk(file \o dict_page.header \o dict_page.payload, Len(file),
                             col_spec, col_values, max_def_level, dict)
        with(dict) ==
            IF dict.use_dictionary
            THEN after_dict_page(dict, encode_dictionary_page(dict, col_spec.type))
            ELSE write_plain_chunk(file, col_spec, col_values, max_def_level, dict)
    IN  with(analyze_column(col_values))

\* the loop over the columns of write_row_group: [file, columns, emitted]
RECURSIVE write_column_chunks(_, _, _, _, _, _)
write_column_chunks(file, col_specs, columns, c, cms, emitted) ==
    IF c > Len(columns) THEN [file |-> file, columns |-> cms, emitted |-> emitted]
    ELSE LET after(x) ==
                 write_column_chunks(x.file, col_specs, columns, c + 1, Append(cms, x.cm),
                                     emitted \o [i \in 1..Len(x.emitted) |->
                                                    x.emitted[i] @@ [column_idx |-> c - 1]])
         IN  after(write_column_chunk(file, col_specs[c], columns[c]))

\* total_rows_ += num_rows
\* a total that is overwritten, not added to
add_total_rows_Overwrites(total_rows, num_rows) == num_rows

add_total_rows(total_rows, num_rows) == total_rows + num_rows

\* the writer after the chunks x of a row group of num_rows rows went to the file
row_group_written(w, num_rows, x) ==
    [w EXCEPT !.file = x.file,
              !.total_rows_ = add_total_rows(@, num_rows),
              !.row_groups_ = Append(@, [num_rows |-> num_rows, columns |-> x.columns]),
              !.emitted = @ \o [i \in 1..Len(x.emitted) |->
                                   x.emitted[i] @@ [row_group_idx |-> Len(w.row_groups_)]]]

\* a write_row_group that counts the rows of its first buffer before it looks
\* at the number of buffers
write_row_group_CountsFirst(w, columns) ==
    IF w.closed_ THEN [w |-> w, thrown |-> TRUE]
    ELSE IF Len(columns) # Len(w.columns_)
    THEN [w |-> [w EXCEPT !.total_rows_ =
                     add_total_rows(@, IF columns = <<>> THEN 0 ELSE Len(columns[1]))],
          thrown |-> TRUE]
    ELSE [thrown |-> FALSE,
          w |-> row_group_written(w, IF columns = <<>> THEN 0 ELSE Len(columns[1]),
                                  write_column_chunks(w.file, w.columns_, columns, 1,
                                                      <<>>, <<>>))]

\* a writer is [columns_, file, row_groups_, total_rows_, closed_, emitted];
\* the result carries thrown = TRUE when the call raises an error
write_row_group(w, columns) ==
    IF w.closed_ \/ Len(columns) # Len(w.columns_) THEN [w |-> w, thrown |-> TRUE]
    ELSE [thrown |-> FALSE,
          w |-> row_group_written(w, IF columns = <<>> THEN 0 ELSE Len(columns[1]),
                                  write_column_chunks(w.file, w.columns_, columns, 1,
                                                      <<>>, <<>>))]

\* close(): the calls that write the SchemaElement of each column (the specs
\* of the model carry no converted type, scale or precision)
RECURSIVE schema_element_calls(_)
schema_element_calls(col_specs) ==
    IF col_specs = <<>> THEN <<>>
    ELSE <<W("push_field_state", <<>>),
           W("write_i32", <<1, Head(col_specs).type>>),
           W("write_i32", <<3, Head(col_specs).repetition>>),
           W("write_string", <<4, Head(col_specs).name>>),
           W("write_stop", <<>>),
           W("pop_field_state", <<>>)>>
         \o schema_element_calls(Tail(col_specs))

\* close(): the calls that write one ColumnChunk
column_chunk_meta_calls(cm, col_spec) ==
    <<W("push_field_state", <<>>),
      W("write_i64", <<2, IF cm.dictionary_page_offset >= 0
                          THEN cm.dictionary_page_offset ELSE cm.data_page_offset>>),
      W("write_struct_begin", <<3>>),
      W("write_i32", <<1, col_spec.type>>)>>
    \o (IF cm.encoding = Encoding_RLE_DICTIONARY
        THEN <<W("write_list_begin", <<2, CT_I32, 2>>),
               W("write_zigzag_raw", <<Encoding_PLAIN>>),
               W("write_zigzag_raw", <<Encoding_RLE_DICTIONARY>>)>>
        ELSE <<W("write_list_begin", <<2, CT_I32, 1>>),
               W("write_zigzag_raw", <<Encoding_PLAIN>>)>>)
    \o <<W("write_list_begin", <<3, CT_BINARY, 1>>),
         W("write_varint_raw", <<Len(col_spec.name)>>),
         W("write_raw", <<col_spec.name>>),
         W("write_i32", <<4, UNCOMPRESSED>>),
         W("write_i64", <<5, cm.num_values>>),
         W("write_i64", <<6, cm.total_uncompressed_size>>),
         W("write_i64", <<7, cm.total_compressed_size>>),
         W("write_i64", <<9, cm.data_page_offset>>)>>
    \o (IF cm.dictionary_page_offset >= 0
        THEN <<W("write_i64", <<11, cm.dictionary_page_offset>>)>> ELSE <<>>)
    \o <<W("write_struct_end", <<>>),
         W("write_stop", <<>>),
         W("pop_field_state", <<>>)>>

RECURSIVE column_chunk_metas_calls(_, _, _)
column_chunk_metas_calls(cms, col_specs, c) ==
    IF c > Len(cms) THEN <<>>
    ELSE column_chunk_meta_calls(cms[c], col_specs[c])
         \o column_chunk_metas_calls(cms, col_specs, c + 1)

RECURSIVE sum_compressed(_)
sum_compressed(cms) ==
    IF cms = <<>> THEN 0 ELSE Head(cms).total_compressed_size + sum_compressed(Tail(cms))

\* close(): the calls that write the RowGroup table
RECURSIVE row_group_calls(_, _)
row_group_calls(row_groups, col_specs) ==
    IF row_groups = <<>> THEN <<>>
    ELSE <<W("push_field_state", <<>>),
           W("write_list_begin", <<1, CT_STRUCT, Len(Head(row_groups).columns)>>)>>
         \o column_chunk_metas_calls(Head(row_groups).columns, col_specs, 1)
         \o <<W("write_i64", <<2, sum_compressed(Head(row_groups).columns)>>),
              W("write_i64", <<3, Head(row_groups).num_rows>>),
              W("write_stop", <<>>),
              W("pop_field_state", <<>>)>>
         \o row_group_calls(Tail(row_groups), col_specs)

\* close(): the calls that write the descriptor (FileMetaData)
footer_calls(w) ==
    <<W("write_i32", <<1, 2>>),
      W("write_list_begin", <<2, CT_STRUCT, 1 + Len(w.columns_)>>),
      W("push_field_state", <<>>),
      W("write_string", <<4, <<115, 99, 104, 101, 109, 97>>>>),
      W("write_i32", <<5, Len(w.columns_)>>),
      W("write_stop", <<>>),
      W("pop_field_state", <<>>)>>
    \o schema_element_calls(w.columns_)
    \o <<W("write_i64", <<3, w.total_rows_>>),
         W("write_list_begin", <<4, CT_STRUCT, Len(w.row_groups_)>>)>>
    \o row_group_calls(w.row_groups_, w.columns_)
    \o <<W("write_stop", <<>>)>>

\* close(): the bytes of the descriptor
footer_bytes(w) == thrift_bytes(footer_calls(w))

\* the file after the descriptor, its length and the magic
with_footer(file, footer) == file \o footer \o LEBytes(Len(footer), 4) \o PAR1

\* a close() that does not look at closed_
close_Unguarded(w) ==
    [w EXCEPT !.closed_ = TRUE, !.file = with_footer(@, footer_bytes(w))]

close(w) ==
    IF w.closed_ THEN w
    ELSE [w EXCEPT !.closed_ = TRUE, !.file = with_footer(@, footer_bytes(w))]


\* ParquetWriter::ParquetWriter: the file is truncated and the magic written
ParquetWriter(columns) ==
    [columns_ |-> columns, file |-> PAR1, row_groups_ |-> <<>>, total_rows_ |-> 0,
     closed_ |-> FALSE, emitted |-> <<>>]

\* ParquetWriter::~ParquetWriter
destroy(w) == IF ~w.closed_ THEN close(w) ELSE w

----------------------------------------------------------------------------
(* Descriptor structs: src/include/metadata.hpp.  An optional field is <<>>  *)
(* (absent) or <<v>>.  Fields that no code of the reader looks at again      *)
(* (type_length, scale, precision, field_id, crc, level encodings,           *)
(* is_sorted, file_path, index_page_offset, key/value pairs, created_by)     *)
(* are decoded and dropped.                                                  *)

SchemaElement ==
    [type |-> <<>>, repetition_type |-> <<>>, name |-> <<>>, num_children |-> <<>>,
     converted_type |-> <<>>]

ColumnMetaData ==
    [type |-> Type_INT32, encodings |-> <<>>, path_in_schema |-> <<>>, codec |-> UNCOMPRESSED,
     num_values |-> 0, total_uncompressed_size |-> 0, total_compressed_size |-> 0,
     data_page_offset |-> 0, dictionary_page_offset |-> <<>>]

ColumnChunk == [file_offset |-> 0, meta_data |-> <<>>]

DataPageHeader == [num_values |-> 0, encoding |-> Encoding_PLAIN]

DictionaryPageHeader == [num_values |-> 0, encoding |-> Encoding_PLAIN_DICTIONARY]

PageHeader ==
    [type |-> DATA_PAGE, uncompressed_page_size |-> 0, compressed_page_size |-> 0,
     data_page_header |-> <<>>, dictionary_page_header |-> <<>>]

RowGroup == [columns |-> <<>>, total_byte_size |-> 0, num_rows |-> 0]

KeyValue == [key |-> <<>>]

FileMetaData == [version |-> 0, schema |-> <<>>, num_rows |-> 0, row_groups |-> <<>>]

\* a default-constructed struct of the named kind
DefaultOf(kind) ==
    CASE kind = "SchemaElement" -> SchemaElement
      [] kind = "ColumnMetaData" -> ColumnMetaData
      [] kind = "ColumnChunk" -> ColumnChunk
      [] kind = "DataPageHeader" -> DataPageHeader
      [] kind = "DictionaryPageHeader" -> DictionaryPageHeader
      [] kind = "PageHeader" -> PageHeader
      [] kind = "RowGroup" -> RowGroup
      [] kind = "KeyValue" -> KeyValue
      [] kind = "FileMetaData" -> FileMetaData

\* one case of a deserialize switch: the field id, the member assigned, how it
\* is assigned ("set", "optional" for a std::optional member, "drop" for a
\* member nothing reads again), the read that yields the value and, for a
\* struct or a list, the kind of the struct or of the elements
Case(id, member, assign, read, elem) ==
    [id |-> id, member |-> member, assign |-> assign, read |-> read, elem |-> elem]

\* the switch (fh.field_id) of each struct's deserialize
Cases ==
    [SchemaElement |->
        <<Case(1, "type", "optional", "i32", ""),
          Case(2, "", "drop", "i32", ""),
          Case(3, "repetition_type", "optional", "i32", ""),
          Case(4, "name", "set", "string", ""),
          Case(5, "num_children", "optional", "i32", ""),
          Case(6, "converted_type", "optional", "i32", ""),
          Case(7, "", "drop", "i32", ""),
          Case(8, "", "drop", "i32", ""),
          Case(9, "", "drop", "i32", "")>>,
     ColumnMetaData |->
        <<Case(1, "type", "set", "i32", ""),
          Case(2, "encodings", "set", "list", "i32"),
          Case(3, "path_in_schema", "set", "list", "string"),
          Case(4, "codec", "set", "i32", ""),
          Case(5, "num_values", "set", "i64", ""),
          Case(6, "total_uncompressed_size", "set", "i64", ""),
          Case(7, "total_compressed_size", "set", "i64", ""),
          Case(9, "data_page_offset", "set", "i64", ""),
          Case(10, "", "drop", "i64", ""),
          Case(11, "dictionary_page_offset", "optional", "i64", "")>>,
     ColumnChunk |->
        <<Case(1, "", "drop", "string", ""),
          Case(2, "file_offset", "set", "i64", ""),
          Case(3, "meta_data", "optional", "struct", "ColumnMetaData")>>,
     DataPageHeader |->
        <<Case(1, "num_values", "set", "i32", ""),
          Case(2, "encoding", "set", "i32", ""),
          Case(3, "", "drop", "i32", ""),
          Case(4, "", "drop", "i32", "")>>,
     DictionaryPageHeader |->
        <<Case(1, "num_values", "set", "i32", ""),
          Case(2, "encoding", "set", "i32", ""),
          Case(3, "", "drop", "bool", "")>>,
     PageHeader |->
        <<Case(1, "type", "set", "i32", ""),
          Case(2, "uncompressed_page_size", "set", "i32", ""),
          Case(3, "compressed_page_size", "set", "i32", ""),
          Case(4, "", "drop", "i32", ""),
          Case(5, "data_page_header", "optional", "struct", "DataPageHeader"),
          Case(7, "dictionary_page_header", "optional", "struct", "DictionaryPageHeader")>>,
     RowGroup |->
        <<Case(1, "columns", "set", "list", "ColumnChunk"),
          Case(2, "total_byte_size", "set", "i64", ""),
          Case(3, "num_rows", "set", "i64", "")>>,
     KeyValue |->
        <<Case(1, "", "drop", "string", ""),
          Case(2, "", "drop", "string", "")>>,
     FileMetaData |->
        <<Case(1, "version", "set", "i32", ""),
          Case(2, "schema", "set", "list", "SchemaElement"),
          Case(3, "num_rows", "set", "i64", ""),
          Case(4, "row_groups", "set", "list", "RowGroup"),
          Case(5, "", "drop", "list", "KeyValue"),
          Case(6, "", "drop", "string", "")>>]

\* the case of the switch taken for a field id; default: reader.skip(fh.type)
case_of(cases, field_id) ==
    IF \E i \in 1..Len(cases) : cases[i].id = field_id
    THEN cases[CHOOSE i \in 1..Len(cases) : cases[i].id = field_id]
    ELSE Case(field_id, "", "drop", "skip", "")

\* member = value read: [r, v], v the struct after the assignment
assign(c, obj, x) ==
    [r |-> x.r,
     v |-> IF c.assign = "set" THEN [obj EXCEPT ![c.member] = x.v]
           ELSE IF c.assign = "optional" THEN [obj EXCEPT ![c.member] = <<x.v>>]
           ELSE obj]

RECURSIVE deserialize(_, _, _, _)
RECURSIVE read_field(_, _, _, _)
RECURSIVE read_elems(_, _, _, _, _)
RECURSIVE read_value(_, _, _, _, _, _)

\* the body of X::deserialize's loop after read_field_begin() returned fh
deserialize_field(kind, buf, fh, obj) ==
    IF ~fh.r.ok \/ fh.type = CT_STOP THEN [r |-> fh.r, v |-> obj]
    ELSE read_field(kind, buf, fh, obj)

\* X::deserialize: the loop over the fields up to the stop byte; [r, v]
deserialize(kind, buf, r, obj) == deserialize_field(kind, buf, read_field_begin(buf, r), obj)

\* read_struct_end() after a deserialize that did not throw
end_struct(d) == [r |-> IF d.r.ok THEN read_struct_end(d.r) ELSE d.r, v |-> d.v]

\* read_struct_begin(); X x; x.deserialize(reader); read_struct_end()
read_struct(kind, buf, r) ==
    end_struct(deserialize(kind, buf, read_struct_begin(r), DefaultOf(kind)))

\* for (i < lh.count) push_back(an element read): [r, v]
read_elems(elem, buf, r, count, acc) ==
    IF count <= 0 \/ ~r.ok THEN [r |-> r, v |-> acc]
    ELSE LET push_back(x) == read_elems(elem, buf, x.r, count - 1, Append(acc, x.v))
         IN  push_back(read_value(elem, "", buf, r, 0, <<>>))

\* the elements after read_list_begin() returned lh
read_list(elem, buf, lh, acc) == read_elems(elem, buf, lh.r, lh.count, acc)

\* one read of the ThriftReader: [r, v]; a struct is read whole, the elements
\* of a list are appended to acc
read_value(read, elem, buf, r, type_from_header, acc) ==
    CASE read = "i32" -> read_i32(buf, r)
      [] read = "i64" -> read_i64(buf, r)
      [] read = "string" -> read_string(buf, r)
      [] read = "bool" -> [r |-> r, v |-> read_bool(type_from_header)]
      [] read = "list" -> read_list(elem, buf, read_list_begin(buf, r), acc)
      [] read = "struct" -> read_struct(elem, buf, r)
      [] read = "skip" -> [r |-> skip(buf, r, type_from_header), v |-> 0]
      [] OTHER -> read_struct(read, buf, r)

\* one case of the switch and the next turn of the loop
read_case(kind, buf, fh, obj, c) ==
    LET next_field(x) == IF ~x.r.ok THEN x ELSE deserialize(kind, buf, x.r, x.v)
    IN  next_field(assign(c, obj,
            read_value(c.read, c.elem, buf, fh.r, fh.type,
                       IF c.assign = "set" /\ c.read = "list" THEN obj[c.member] ELSE <<>>)))

read_field(kind, buf, fh, obj) == read_case(kind, buf, fh, obj, case_of(Cases[kind], fh.field_id))

----------------------------------------------------------------------------
(* ParquetReader: src/src/reader/parquet_reader.cpp.  A reader is            *)
(* [file_size_, metadata_, columns_, column_name_to_idx_, page_index_, fail, *)
(* footer_range]: fail is the failbit of the input stream file_, and         *)
(* footer_range records the range open() asked for when it read the          *)
(* descriptor.                                                               *)

HEADER_READ_SIZE == 256

Zeros(n) == [i \in 1..n |-> 0]

\* read_range: std::vector<uint8_t> buf(length); seekg; read.  [buf, fail].
\* A stream whose failbit is set does nothing in seekg and read, so the
\* buffer stays zero; a read that reaches the end of the file stores the bytes
\* there are and sets the failbit; nothing ever clears it.
read_range(file, fail, offset, length) ==
    IF fail \/ offset < 0 THEN [buf |-> Zeros(length), fail |-> TRUE]
    ELSE IF offset + length <= Len(file)
    THEN [buf |-> SubSeq(file, offset + 1, offset + length), fail |-> FALSE]
    ELSE LET got == SubSeq(file, offset + 1, Len(file)) IN
         [buf |-> got \o Zeros(length - Len(got)), fail |-> TRUE]

\* the page header in the window header_buf: [hdr, header_size, ok, fail];
\* ok is FALSE when deserialize throws
page_header_in(header_buf) ==
    LET header(d) == [hdr |-> d.v, header_size |-> d.r.pos, ok |-> d.r.ok,
                      fail |-> header_buf.fail]
    IN  header(deserialize("PageHeader", header_buf.buf, ThriftReader, PageHeader))

\* the page header at cur_offset, read through the fixed window
read_page_header(file, fail, cur_offset) ==
    page_header_in(read_range(file, fail, cur_offset, HEADER_READ_SIZE))

\* min(data_page_offset, dictionary_page_offset)
chunk_start(meta) ==
    IF meta.dictionary_page_offset # <<>>
    THEN Min(meta.data_page_offset, meta.dictionary_page_offset[1])
    ELSE meta.data_page_offset

\* skip_schema_subtree: the index after the subtree rooted at idx (0-based);
\* the schemas of the model never make it run off the list
RECURSIVE skip_schema_subtree(_, _)
RECURSIVE skip_schema_children(_, _, _)
skip_schema_subtree(schema, idx) ==
    LET nc == schema[idx + 1].num_children IN
    skip_schema_children(schema, idx + 1, IF nc = <<>> THEN 0 ELSE nc[1])

skip_schema_children(schema, idx, children) ==
    IF children <= 0 THEN idx
    ELSE LET nc == schema[idx + 1].num_children IN
         skip_schema_children(schema,
             IF nc # <<>> /\ nc[1] > 0 THEN skip_schema_subtree(schema, idx) ELSE idx + 1,
             children - 1)

\* an end that counts every child as one element, groups included
child_end_CountsElements(schema, idx, remaining, schema_end) ==
    Min(idx + remaining, schema_end)

\* the end of the children of a group:
\* while (remaining > 0 && idx < schema_end)
RECURSIVE child_end(_, _, _, _)
child_end(schema, idx, remaining, schema_end) ==
    IF remaining > 0 /\ idx < schema_end
    THEN LET nc == schema[idx + 1].num_children IN
         child_end(schema,
                   IF nc # <<>> /\ nc[1] > 0 THEN skip_schema_subtree(schema, idx) ELSE idx + 1,
                   remaining - 1, schema_end)
    ELSE idx

\* build_columns_recursive: the leaves found, appended to columns
RECURSIVE build_columns_recursive(_, _, _, _, _, _)
build_columns_recursive(schema, schema_idx, schema_end, def_level, rep_level, columns) ==
    IF schema_idx >= schema_end THEN columns
    ELSE LET elem == schema[schema_idx + 1]
             rt == elem.repetition_type
             my_def == IF rt # <<>> /\ rt[1] \in {OPTIONAL, REPEATED}
                       THEN def_level + 1 ELSE def_level
             my_rep == IF rt # <<>> /\ rt[1] = REPEATED THEN rep_level + 1 ELSE rep_level
         IN  IF elem.num_children # <<>> /\ elem.num_children[1] > 0
             THEN LET ce == child_end(schema, schema_idx + 1, elem.num_children[1], schema_end)
                      inner == build_columns_recursive(schema, schema_idx + 1, ce,
                                                       my_def, my_rep, columns)
                  IN  build_columns_recursive(schema, ce, schema_end,
                                              def_level, rep_level, inner)
             ELSE build_columns_recursive(schema, schema_idx + 1, schema_end,
                      def_level, rep_level,
                      Append(columns,
                             [name |-> elem.name,
                              type |-> IF elem.type = <<>> THEN Type_BYTE_ARRAY ELSE elem.type[1],
                              column_index |-> Len(columns),
                              max_def_level |-> my_def,
                              max_rep_level |-> my_rep,
                              repetition |-> rt,
                              converted_type |-> elem.converted_type]))

build_column_info(metadata) ==
    IF metadata.schema = <<>> THEN <<>>
    ELSE build_columns_recursive(metadata.schema, 1, Len(metadata.schema), 0, 0, <<>>)

\* column_name_to_idx_[columns_[i].name] = i, a later column overwriting an
\* earlier one of the same name
build_column_index(columns) ==
    [n \in {columns[i].name : i \in 1..Len(columns)} |->
        CHOOSE i \in 0..(Len(columns) - 1) :
            /\ columns[i + 1].name = n
            /\ \A j \in 0..(Len(columns) - 1) : columns[j + 1].name = n => j <= i]

find_column(rd, name) ==
    IF name \in DOMAIN rd.column_name_to_idx_ THEN rd.column_name_to_idx_[name] ELSE -1


\* build_page_index: the while loop over the pages of one chunk;
\* [status, entries, fail].  Once the stream has failed every header window is
\* zero: a header of type DATA_PAGE declaring no value and no size, so the
\* loop appends an entry and moves one byte on, for ever ("hang", with the
\* first such entry kept).
RECURSIVE page_index_chunk(_, _, _, _, _, _, _, _)
page_index_chunk(file, fail, num_values, cur_offset, values_read, rg_idx, col_idx, entries) ==
    LET indexed(h) ==
            IF h.hdr.type \in {DATA_PAGE, DATA_PAGE_V2}
            THEN Append(entries, [data_offset |-> cur_offset + h.header_size,
                                  data_size |-> h.hdr.compressed_page_size,
                                  row_group_idx |-> rg_idx,
                                  column_idx |-> col_idx])
            ELSE entries
        page_values(h) ==
            IF h.hdr.type = DATA_PAGE /\ h.hdr.data_page_header # <<>>
            THEN h.hdr.data_page_header[1].num_values ELSE 0
        page(h) ==
            IF ~h.ok THEN [status |-> "throw", entries |-> entries, fail |-> h.fail]
            ELSE IF fail THEN [status |-> "hang", entries |-> indexed(h), fail |-> TRUE]
            ELSE page_index_chunk(file, h.fail, num_values,
                                  cur_offset + h.header_size + h.hdr.compressed_page_size,
                                  values_read + page_values(h), rg_idx, col_idx, indexed(h))
    IN  IF values_read >= num_values
        THEN [status |-> "ok", entries |-> entries, fail |-> fail]
        ELSE page(read_page_header(file, fail, cur_offset))

\* build_page_index: the loops over row groups and chunks (0-based indices)
RECURSIVE build_page_index(_, _, _, _, _, _)
build_page_index(file, fail, metadata, rg_idx, col_idx, entries) ==
    LET next_chunk(x) ==
            IF x.status # "ok" THEN x
            ELSE build_page_index(file, x.fail, metadata, rg_idx, col_idx + 1, x.entries)
        chunk(meta) ==
            next_chunk(page_index_chunk(file, fail, meta.num_values, chunk_start(meta),
                                        0, rg_idx, col_idx, entries))
        column(columns) ==
            IF col_idx >= Len(columns)
            THEN build_page_index(file, fail, metadata, rg_idx + 1, 0, entries)
            ELSE IF columns[col_idx + 1].meta_data = <<>>
            THEN build_page_index(file, fail, metadata, rg_idx, col_idx + 1, entries)
            ELSE chunk(columns[col_idx + 1].meta_data[1])
    IN  IF rg_idx >= Len(metadata.row_groups)
        THEN [status |-> "ok", entries |-> entries, fail |-> fail]
        ELSE column(metadata.row_groups[rg_idx + 1].columns)

\* the 32-bit length stored in the trailer, as its top bit and its low 31 bits
footer_length_top(trailer) == trailer[4] \div 128
footer_length_low(trailer) ==
    trailer[1] + 256 * trailer[2] + 65536 * trailer[3] + 16777216 * (trailer[4] % 128)

\* footer_length + 8 > file_size_, the sum computed in 32 bits unsigned: a
\* length of 2^32 - 8 or more wraps round to 0..7
footer_too_long(trailer, file_size) ==
    LET top == footer_length_top(trailer)
        low == footer_length_low(trailer)
    IN  IF top = 1 /\ low >= 2147483640 THEN low - 2147483640 > file_size
        ELSE IF top = 1 \/ low > 2147483639 THEN TRUE
        ELSE low + 8 > file_size

NoReader ==
    [file_size_ |-> 0, metadata_ |-> FileMetaData, columns_ |-> <<>>,
     column_name_to_idx_ |-> <<>>, page_index_ |-> <<>>, fail |-> FALSE,
     footer_range |-> <<>>]

\* open(): the outcomes [status, rd]; status is "false" (returned false),
\* "ok" (returned true), "throw" (an exception left open) or "hang".
\* With a wrapped length the descriptor range starts before the file: the
\* buffer of some 4 GiB is either refused (bad_alloc) or stays zero.
open(file) ==
    LET rejected == {[status |-> "false", rd |-> [NoReader EXCEPT !.file_size_ = Len(file)]]}
        thrown == [status |-> "throw", rd |-> [NoReader EXCEPT !.file_size_ = Len(file)]]
        opened(metadata, columns, pi, footer_range) ==
            [status |-> pi.status,
             rd |-> [file_size_ |-> Len(file), metadata_ |-> metadata, columns_ |-> columns,
                     column_name_to_idx_ |-> build_column_index(columns),
                     page_index_ |-> pi.entries, fail |-> pi.fail,
                     footer_range |-> footer_range]]
        deserialized(m, fail, footer_range) ==
            IF ~m.r.ok THEN {thrown}
            ELSE {opened(m.v, build_column_info(m.v),
                         build_page_index(file, fail, m.v, 0, 0, <<>>), footer_range)}
                 \cup (IF footer_range = <<>> THEN {thrown} ELSE {})
        footer_read(footer_data, footer_range) ==
            deserialized(deserialize("FileMetaData", footer_data.buf, ThriftReader,
                                     FileMetaData),
                         footer_data.fail, footer_range)
        footer_at(wrapped, footer_offset, footer_length) ==
            footer_read(IF wrapped THEN [buf |-> <<0>>, fail |-> TRUE]
                        ELSE read_range(file, FALSE, footer_offset, footer_length),
                        IF wrapped THEN <<>>
                        ELSE <<[offset |-> footer_offset, length |-> footer_length]>>)
        trailer_read(trailer) ==
            IF SubSeq(trailer, 5, 8) # PAR1 THEN rejected
            ELSE IF footer_too_long(trailer, Len(file)) THEN rejected
            ELSE footer_at(footer_length_top(trailer) = 1,
                           Len(file) - 8 - footer_length_low(trailer),
                           footer_length_low(trailer))
    IN  IF Len(file) < 12 THEN rejected
        ELSE IF read_range(file, FALSE, 0, 4).buf # PAR1 THEN rejected
        ELSE trailer_read(read_range(file, FALSE, Len(file) - 8, 8).buf)


----------------------------------------------------------------------------
(* ColumnReader: src/src/reader/column_reader.cpp.  A ByteBuffer over a page *)
(* is the buffer and a cursor [pos, ok] (the cursor of a ThriftReader).      *)

\* ColumnReader::bit_width and StringColumnIterator::bit_width
bit_width(max_level) == IF max_level <= 0 THEN 0 ELSE BitLen(max_level)

\* buf.read<uint32_t>(): [r, v]
read_u32(buf, r) ==
    LET value(x) == [r |-> x.r, v |-> IF x.r.ok THEN LEUnsigned32(x.v) ELSE 0]
    IN  value(read_bytes(buf, r, 4))

\* [r, ok, v]: one plain value of the column's type
read_plain_value(buf, r, type) ==
    LET boolean(x) == [r |-> x.r, v |-> ValueOf(x.v # 0)]
        integer(x) == [r |-> x.r, v |-> ValueOf(IF x.r.ok THEN LESigned(x.v) ELSE 0)]
        bytes(x) == [r |-> x.r, v |-> ValueOf(x.v)]
        byte_array(len) == bytes(read_bytes(buf, len.r, len.v))
    IN
    IF type = Type_BOOLEAN THEN boolean(read_byte(buf, r))
    ELSE IF type \in {Type_INT32, Type_INT64}
    THEN integer(read_bytes(buf, r, IF type = Type_INT32 THEN 4 ELSE 8))
    ELSE IF type = Type_BYTE_ARRAY THEN byte_array(read_u32(buf, r))
    ELSE [r |-> Thrown(r), v |-> NullValue(type)]

\* [r, v]: count plain values one after the other
RECURSIVE read_plain_values(_, _, _, _, _)
read_plain_values(buf, r, type, count, acc) ==
    LET push_back(x) == read_plain_values(buf, x.r, type, count - 1, Append(acc, x.v))
    IN  IF count <= 0 \/ ~r.ok THEN [r |-> r, v |-> acc]
        ELSE push_back(read_plain_value(buf, r, type))

\* [ok, dict]
read_dictionary_page(data, header, type) ==
    LET page(x) == [ok |-> x.r.ok, dict |-> x.v]
    IN  page(read_plain_values(data, ThriftReader, type, header.num_values, <<>>))

\* uint32_t len = buf.read<uint32_t>(); RleDecoder(buf.current(), len, bw)
\* .get_batch(levels, num_values); buf.read_bytes(len): [r, levels]
read_levels(buf, r, max_level, num_values) ==
    LET decoded(len) ==
            [r |-> read_bytes(buf, len.r, len.v).r,
             levels |-> IF len.r.ok
                        THEN get_batch(SubSeq(buf, len.r.pos + 1,
                                              Min(len.r.pos + len.v, Len(buf))),
                                       bit_width(max_level), RleDecoder, num_values,
                                       <<>>).out
                        ELSE <<>>]
    IN  IF max_level > 0 THEN decoded(read_u32(buf, r))
        ELSE [r |-> r, levels |-> [i \in 1..num_values |-> max_level]]

\* the slots of a page filled in order: a null where the level is below
\* max_def_level, the next of non_null otherwise
RECURSIVE fill_slots(_, _, _, _, _)
fill_slots(def_levels, max_def_level, non_null, null, acc) ==
    IF def_levels = <<>> THEN acc
    ELSE IF Head(def_levels) < max_def_level
    THEN fill_slots(Tail(def_levels), max_def_level, non_null, null, Append(acc, null))
    ELSE fill_slots(Tail(def_levels), max_def_level, Tail(non_null), null,
                    Append(acc, Head(non_null)))

\* how many slots are not below max_def_level, and how many equal it
count_present(def_levels, max_def_level) ==
    Cardinality({i \in 1..Len(def_levels) : def_levels[i] >= max_def_level})
count_non_null(def_levels, max_def_level) ==
    Cardinality({i \in 1..Len(def_levels) : def_levels[i] = max_def_level})

\* an id outside the dictionary taken for the nearest one inside it
dictionary_values_Clamps(indices, dict, type, present) ==
    [i \in 1..present |->
        IF i <= Len(indices) /\ Len(dict) > 0
        THEN dict[Max(0, Min(indices[i], Len(dict) - 1)) + 1] ELSE NullValue(type)]

\* the values of the dictionary at the decoded ids; slots beyond the decoded
\* ids read past the vector
dictionary_values(indices, dict, type, present) ==
    [i \in 1..present |->
        IF i <= Len(indices) /\ indices[i] >= 0 /\ indices[i] < Len(dict)
        THEN dict[indices[i] + 1] ELSE NullValue(type)]

\* plain BOOLEAN, bit-packed: one byte read for every eight values
bit_packed_values(x, present) ==
    [r |-> x.r,
     v |-> [i \in 1..present |->
               ValueOf(BitOf(x.v[((i - 1) \div 8) + 1], (i - 1) % 8) = 1)]]

\* the non-null values of a data page after its levels: [r, v]
read_page_values(buf, r, header, dictionary, type, present, num_non_null) ==
    LET ids(bw) ==
            [r |-> bw.r,
             v |-> dictionary_values(get_batch(SubSeq(buf, bw.r.pos + 1, Len(buf)), bw.v,
                                               RleDecoder, num_non_null, <<>>).out,
                                     dictionary[1], type, present)]
    IN
    IF header.encoding \in {Encoding_PLAIN_DICTIONARY, Encoding_RLE_DICTIONARY}
       /\ dictionary # <<>>
    THEN ids(read_byte(buf, r))
    ELSE IF type = Type_BOOLEAN
    THEN IF (present + 7) \div 8 > Len(buf) - r.pos THEN [r |-> Thrown(r), v |-> <<>>]
         ELSE bit_packed_values(read_bytes(buf, r, (present + 7) \div 8), present)
    ELSE read_plain_values(buf, r, type, present, <<>>)

\* [ok, values]
read_data_page(data, header, dictionary, type, max_def_level, max_rep_level) ==
    LET slots(d, x, present) ==
            IF ~x.r.ok \/ Len(x.v) < present THEN [ok |-> FALSE, values |-> <<>>]
            ELSE [ok |-> TRUE,
                  values |-> fill_slots(d.levels, max_def_level, x.v, NullValue(type), <<>>)]
        values(d, rp, present) ==
            slots(d, read_page_values(data, rp.r, header, dictionary, type, present,
                                      count_non_null(d.levels, max_def_level)),
                  present)
        rep_levels(d) ==
            values(d, read_levels(data, d.r, max_rep_level, header.num_values),
                   count_present(d.levels, max_def_level))
    IN  rep_levels(read_levels(data, ThriftReader, max_def_level, header.num_values))

\* ColumnReader::read_all: the while loop; [status, values, fail].  A page
\* size below zero asks for a buffer of 2^64 - |size| bytes, which is refused.
RECURSIVE read_all_loop(_, _, _, _, _, _, _, _)
read_all_loop(file, fail, meta, col, cur_offset, values_read, dictionary, result) ==
    LET thrown(f) == [status |-> "throw", values |-> <<>>, fail |-> f]
        next_page(h, f, num_values, dict, values) ==
            read_all_loop(file, f, meta, col,
                          cur_offset + h.header_size + h.hdr.compressed_page_size,
                          values_read + num_values, dict, values)
        dictionary_page_read(h, f, d) ==
            IF ~d.ok THEN thrown(f) ELSE next_page(h, f, 0, <<d.dict>>, result)
        data_page_read(h, f, p) ==
            IF ~p.ok THEN thrown(f)
            ELSE next_page(h, f, h.hdr.data_page_header[1].num_values, dictionary,
                           result \o p.values)
        page(h, page_buf) ==
            IF h.hdr.type = DICTIONARY_PAGE
            THEN IF h.hdr.dictionary_page_header = <<>> THEN thrown(page_buf.fail)
                 ELSE dictionary_page_read(h, page_buf.fail,
                          read_dictionary_page(page_buf.buf, h.hdr.dictionary_page_header[1],
                                               col.type))
            ELSE IF h.hdr.type = DATA_PAGE
            THEN IF h.hdr.data_page_header = <<>> THEN thrown(page_buf.fail)
                 ELSE data_page_read(h, page_buf.fail,
                          read_data_page(page_buf.buf, h.hdr.data_page_header[1], dictionary,
                                         col.type, col.max_def_level, col.max_rep_level))
            ELSE next_page(h, page_buf.fail, 0, dictionary, result)
        header(h) ==
            IF ~h.ok \/ h.hdr.compressed_page_size < 0 THEN thrown(h.fail)
            ELSE page(h, read_range(file, h.fail, cur_offset + h.header_size,
                                    h.hdr.compressed_page_size))
    IN  IF values_read >= meta.num_values
        THEN [status |-> "ok", values |-> result, fail |-> fail]
        ELSE header(read_page_header(file, fail, cur_offset))

\* ColumnReader::ColumnReader and read_all
read_all(file, fail, chunk, col) ==
    IF chunk.meta_data = <<>> \/ chunk.meta_data[1].codec # UNCOMPRESSED
    THEN [status |-> "throw", values |-> <<>>, fail |-> fail]
    ELSE read_all_loop(file, fail, chunk.meta_data[1], col, chunk_start(chunk.meta_data[1]),
                       0, <<>>, <<>>)

\* ColumnReader::read_pages: the while loop; [status, pages, fail], a page
\* being a PageResult [page_num, type, num_values, values]
RECURSIVE read_pages_loop(_, _, _, _, _, _, _, _, _)
read_pages_loop(file, fail, meta, col, cur_offset, values_read, dictionary, page_num, pages) ==
    LET thrown(f) == [status |-> "throw", pages |-> <<>>, fail |-> f]
        PageResult(type, num_values, values) ==
            [page_num |-> page_num, type |-> type, num_values |-> num_values,
             values |-> values]
        next_page(h, f, num_values, dict, result) ==
            read_pages_loop(file, f, meta, col,
                            cur_offset + h.header_size + h.hdr.compressed_page_size,
                            values_read + num_values, dict, page_num + 1, result)
        dictionary_page_read(h, f, d) ==
            IF ~d.ok THEN thrown(f)
            ELSE next_page(h, f, 0, <<d.dict>>,
                           Append(pages,
                                  PageResult(DICTIONARY_PAGE,
                                             h.hdr.dictionary_page_header[1].num_values,
                                             <<>>)))
        data_page_read(h, f, p) ==
            IF ~p.ok THEN thrown(f)
            ELSE next_page(h, f, h.hdr.data_page_header[1].num_values, dictionary,
                           Append(pages,
                                  PageResult(DATA_PAGE,
                                             h.hdr.data_page_header[1].num_values,
                                             p.values)))
        page(h, page_buf) ==
            IF h.hdr.type = DICTIONARY_PAGE
            THEN IF h.hdr.dictionary_page_header = <<>> THEN thrown(page_buf.fail)
                 ELSE dictionary_page_read(h, page_buf.fail,
                          read_dictionary_page(page_buf.buf, h.hdr.dictionary_page_header[1],
                                               col.type))
            ELSE IF h.hdr.type = DATA_PAGE
            THEN IF h.hdr.data_page_header = <<>> THEN thrown(page_buf.fail)
                 ELSE data_page_read(h, page_buf.fail,
                          read_data_page(page_buf.buf, h.hdr.data_page_header[1], dictionary,
                                         col.type, col.max_def_level, col.max_rep_level))
            ELSE next_page(h, page_buf.fail, 0, dictionary, pages)
        header(h) ==
            IF ~h.ok \/ h.hdr.compressed_page_size < 0 THEN thrown(h.fail)
            ELSE page(h, read_range(file, h.fail, cur_offset + h.header_size,
                                    h.hdr.compressed_page_size))
    IN  IF values_read >= meta.num_values
        THEN [status |-> "ok", pages |-> pages, fail |-> fail]
        ELSE header(read_page_header(file, fail, cur_offset))

\* a read_pages that starts at the first data page of the chunk
read_pages_FromDataPage(file, fail, chunk, col) ==
    IF chunk.meta_data = <<>> \/ chunk.meta_data[1].codec # UNCOMPRESSED
    THEN [status |-> "throw", pages |-> <<>>, fail |-> fail]
    ELSE read_pages_loop(file, fail, chunk.meta_data[1], col,
                         chunk.meta_data[1].data_page_offset, 0, <<>>, 0, <<>>)

\* ColumnReader::ColumnReader and read_pages
read_pages(file, fail, chunk, col) ==
    IF chunk.meta_data = <<>> \/ chunk.meta_data[1].codec # UNCOMPRESSED
    THEN [status |-> "throw", pages |-> <<>>, fail |-> fail]
    ELSE read_pages_loop(file, fail, chunk.meta_data[1], col,
                         chunk_start(chunk.meta_data[1]), 0, <<>>, 0, <<>>)

\* read_column_by_idx(int row_group_idx, int col_idx): [status, values, fail]
read_column_by_idx(rd, file, row_group_idx, col_idx) ==
    IF \/ row_group_idx < 0 \/ row_group_idx >= Len(rd.metadata_.row_groups)
       \/ col_idx < 0 \/ col_idx >= Len(rd.columns_)
    THEN [status |-> "throw", values |-> <<>>, fail |-> rd.fail]
    ELSE read_all(file, rd.fail,
                  rd.metadata_.row_groups[row_group_idx + 1]
                      .columns[rd.columns_[col_idx + 1].column_index + 1],
                  rd.columns_[col_idx + 1])

\* read_column(col_name): the loop over the row groups
RECURSIVE read_column_loop(_, _, _, _, _)
read_column_loop(rd, file, col_idx, rg, result) ==
    LET row_group(x) ==
            IF x.status # "ok" THEN x
            ELSE read_column_loop([rd EXCEPT !.fail = x.fail], file, col_idx, rg + 1,
                                  result \o x.values)
    IN  IF rg >= Len(rd.metadata_.row_groups)
        THEN [status |-> "ok", values |-> result, fail |-> rd.fail]
        ELSE row_group(read_column_by_idx(rd, file, rg, col_idx))

read_column(rd, file, col_name) ==
    IF find_column(rd, col_name) < 0
    THEN [status |-> "throw", values |-> <<>>, fail |-> rd.fail]
    ELSE read_column_loop(rd, file, find_column(rd, col_name), 0, <<>>)

\* a size_t argument too large for the integers of the model:
\* hi * 2^31 + lo, with 0 <= lo < 2^31
SizeT(hi, lo) == [hi |-> hi, lo |-> lo]

\* static_cast<int>(x) of a size_t: the low 32 bits, read as two's complement
to_int(x) == IF x.hi % 2 = 1 THEN x.lo - 2147483647 - 1 ELSE x.lo

\* read_column(col_name, row_group_idx), row_group_idx a size_t
read_column_in_row_group(rd, file, col_name, row_group_idx) ==
    IF find_column(rd, col_name) < 0
    THEN [status |-> "throw", values |-> <<>>, fail |-> rd.fail]
    ELSE read_column_by_idx(rd, file, to_int(row_group_idx), find_column(rd, col_name))

\* column(col_idx): [status, column]
column_at(rd, col_idx) ==
    IF col_idx >= Len(rd.columns_) THEN [status |-> "throw", column |-> <<>>]
    ELSE [status |-> "ok", column |-> <<rd.columns_[col_idx + 1]>>]

\* column(name): [status, column]
column_named(rd, name) ==
    IF find_column(rd, name) < 0 THEN [status |-> "throw", column |-> <<>>]
    ELSE [status |-> "ok", column |-> <<rd.columns_[find_column(rd, name) + 1]>>]

\* page_index_entry(global_page_id): [status, entry]
page_index_entry(rd, global_page_id) ==
    IF global_page_id >= Len(rd.page_index_) THEN [status |-> "throw", entry |-> <<>>]
    ELSE [status |-> "ok", entry |-> <<rd.page_index_[global_page_id + 1]>>]

\* read_page_data(global_page_id): [status, data, fail]
read_page_data(rd, file, global_page_id) ==
    LET read(buf) == [status |-> "ok", data |-> buf.buf, fail |-> buf.fail]
        page(entry) == read(read_range(file, rd.fail, entry.data_offset, entry.data_size))
    IN  IF global_page_id >= Len(rd.page_index_)
        THEN [status |-> "throw", data |-> <<>>, fail |-> rd.fail]
        ELSE page(rd.page_index_[global_page_id + 1])

\* PageIterator::PageIterator
PageIterator(start, end) == [start_ |-> start, end_ |-> end, current_ |-> start]

\* page_iterator(): [status, pit]
page_iterator_all(rd) ==
    [status |-> "ok", pit |-> PageIterator(0, Len(rd.page_index_))]

\* page_iterator(start_page_id, end_page_id): [status, pit]
page_iterator(rd, start_page_id, end_page_id) ==
    IF \/ start_page_id > Len(rd.page_index_)
       \/ end_page_id > Len(rd.page_index_)
       \/ start_page_id > end_page_id
    THEN [status |-> "throw", pit |-> PageIterator(0, 0)]
    ELSE [status |-> "ok", pit |-> PageIterator(start_page_id, end_page_id)]

\* PageIterator::has_next
page_has_next(p) == p.current_ < p.end_

\* a next() whose read leaves the stream of the reader failed
page_next_FailsStream(p, rd, file) ==
    LET thrown == [status |-> "throw", page |-> <<>>, pit |-> p, fail |-> rd.fail]
        raw_page(entry, data) ==
            IF data.status # "ok" THEN thrown
            ELSE [status |-> "ok",
                  page |-> <<[page_id |-> p.current_,
                              row_group_idx |-> entry.row_group_idx,
                              column_idx |-> entry.column_idx,
                              data |-> data.data]>>,
                  pit |-> [p EXCEPT !.current_ = @ + 1],
                  fail |-> TRUE]
        entry_read(e) ==
            IF e.status # "ok" THEN thrown
            ELSE raw_page(e.entry[1], read_page_data(rd, file, p.current_))
    IN  IF ~page_has_next(p) THEN thrown
        ELSE entry_read(page_index_entry(rd, p.current_))

\* PageIterator::next: [status, page, pit, fail]
page_next(p, rd, file) ==
    LET thrown == [status |-> "throw", page |-> <<>>, pit |-> p, fail |-> rd.fail]
        raw_page(entry, data) ==
            IF data.status # "ok" THEN thrown
            ELSE [status |-> "ok",
                  page |-> <<[page_id |-> p.current_,
                              row_group_idx |-> entry.row_group_idx,
                              column_idx |-> entry.column_idx,
                              data |-> data.data]>>,
                  pit |-> [p EXCEPT !.current_ = @ + 1],
                  fail |-> data.fail]
        entry_read(e) ==
            IF e.status # "ok" THEN thrown
            ELSE raw_page(e.entry[1], read_page_data(rd, file, p.current_))
    IN  IF ~page_has_next(p) THEN thrown
        ELSE entry_read(page_index_entry(rd, p.current_))

\* a reset to the first page of the file
page_reset_ToZero(p) == [p EXCEPT !.current_ = 0]

\* PageIterator::reset
page_reset(p) == [p EXCEPT !.current_ = p.start_]


----------------------------------------------------------------------------
(* StringColumnIterator: src/src/reader/parquet_reader.cpp.  An iterator is  *)
(* its fields and buffer, the number of times page_strings_ has been cleared *)
(* so far: a pointer into page_strings_ is [buffer, index], and it is live   *)
(* while the iterator's buffer number is still the pointer's.                *)

NoIterator ==
    [col_idx_ |-> 0, rg_idx_ |-> 0, num_row_groups_ |-> 0, cur_offset_ |-> 0,
     values_read_ |-> 0, total_values_ |-> 0, has_dict_ |-> FALSE, dictionary_ |-> <<>>,
     page_strings_ |-> <<>>, string_idx_ |-> 0, max_def_level_ |-> 0, max_rep_level_ |-> 0,
     buffer |-> 0]

\* [ok, it]: ok is FALSE when meta_data.value() throws
init_row_group(it, rd) ==
    LET col_chunk(chunk) ==
            IF chunk.meta_data = <<>> THEN [ok |-> FALSE, it |-> it]
            ELSE [ok |-> TRUE,
                  it |-> [it EXCEPT !.cur_offset_ = chunk_start(chunk.meta_data[1]),
                                    !.values_read_ = 0,
                                    !.total_values_ = chunk.meta_data[1].num_values,
                                    !.has_dict_ = FALSE,
                                    !.dictionary_ = <<>>]]
    IN  col_chunk(rd.metadata_.row_groups[it.rg_idx_ + 1]
                      .columns[rd.columns_[it.col_idx_ + 1].column_index + 1])

\* rg_idx_++; while (rg_idx_ < num_row_groups_) { init_row_group(); if
\* (total_values_ > 0) break; rg_idx_++; }: [ok, it]
RECURSIVE next_row_group(_, _)
next_row_group(it, rd) ==
    LET initialised(x) ==
            IF ~x.ok \/ x.it.total_values_ > 0 THEN x
            ELSE next_row_group([x.it EXCEPT !.rg_idx_ = @ + 1], rd)
    IN  IF it.rg_idx_ >= it.num_row_groups_ THEN [ok |-> TRUE, it |-> it]
        ELSE initialised(init_row_group(it, rd))

\* the cursor after the repetition levels, which the iterator does not decode
skip_rep_levels(page_buf, r, max_rep_level) ==
    LET bytes(len) == read_bytes(page_buf, len.r, len.v).r
    IN  IF max_rep_level > 0 THEN bytes(read_u32(page_buf, r)) ELSE r

\* the strings among the values x read for n non-null slots: [ok, strings]
strings_of(x, n) ==
    LET data(present) == [i \in 1..Len(present) |-> present[i].data]
    IN  [ok |-> x.r.ok /\ Len(x.v) = n,
         strings |-> data(SelectSeq(x.v, LAMBDA v : ~v.is_null))]

\* the strings of one data page: [ok, strings]
page_strings(page_buf, dph, it) ==
    LET values(r, n) ==
            strings_of(read_page_values(page_buf, r, dph,
                                        IF it.has_dict_ THEN <<it.dictionary_>> ELSE <<>>,
                                        Type_BYTE_ARRAY, n, n),
                       n)
        levels(d) == values(skip_rep_levels(page_buf, d.r, it.max_rep_level_),
                            count_non_null(d.levels, it.max_def_level_))
    IN  levels(read_levels(page_buf, ThriftReader, it.max_def_level_, dph.num_values))

\* decode_next_page: the loop while (page_strings_.empty());
\* [status, it, fail], status "true", "false" (the return value) or "throw"
RECURSIVE decode_loop(_, _, _, _)
decode_loop(it, rd, file, fail) ==
    LET thrown(i1, f) == [status |-> "throw", it |-> i1, fail |-> f]
        after(i1, h) ==
            [i1 EXCEPT !.cur_offset_ = @ + h.header_size + h.hdr.compressed_page_size]
        dictionary_read(i1, h, f, d) ==
            IF ~d.ok THEN thrown(i1, h.fail)
            ELSE decode_loop([after(i1, h) EXCEPT !.dictionary_ = d.dict,
                                                  !.has_dict_ = TRUE],
                             rd, file, f)
        strings_read(i1, h, f, p) ==
            IF ~p.ok THEN thrown(i1, h.fail)
            ELSE decode_loop([after(i1, h) EXCEPT
                                  !.page_strings_ = p.strings,
                                  !.values_read_ = @ + h.hdr.data_page_header[1].num_values],
                             rd, file, f)
        page(i1, h, page_buf) ==
            IF h.hdr.type = DICTIONARY_PAGE
            THEN IF h.hdr.dictionary_page_header = <<>> THEN thrown(i1, h.fail)
                 ELSE dictionary_read(i1, h, page_buf.fail,
                          read_dictionary_page(page_buf.buf, h.hdr.dictionary_page_header[1],
                                               Type_BYTE_ARRAY))
            ELSE IF h.hdr.type = DATA_PAGE
            THEN IF h.hdr.data_page_header = <<>> THEN thrown(i1, h.fail)
                 ELSE strings_read(i1, h, page_buf.fail,
                          page_strings(page_buf.buf, h.hdr.data_page_header[1], i1))
            ELSE decode_loop(after(i1, h), rd, file, page_buf.fail)
        header(i1, h) ==
            IF ~h.ok \/ h.hdr.compressed_page_size < 0 THEN thrown(i1, h.fail)
            ELSE page(i1, h, read_range(file, h.fail, i1.cur_offset_ + h.header_size,
                                        h.hdr.compressed_page_size))
        advanced(adv) ==
            IF ~adv.ok THEN thrown(adv.it, fail)
            ELSE IF adv.it.rg_idx_ >= adv.it.num_row_groups_
            THEN [status |-> "false", it |-> adv.it, fail |-> fail]
            ELSE header(adv.it, read_page_header(file, fail, adv.it.cur_offset_))
    IN  IF it.page_strings_ # <<>> THEN [status |-> "true", it |-> it, fail |-> fail]
        ELSE advanced(IF it.values_read_ >= it.total_values_
                      THEN next_row_group([it EXCEPT !.rg_idx_ = @ + 1], rd)
                      ELSE [ok |-> TRUE, it |-> it])

\* page_strings_.clear(); string_idx_ = 0; then the loop
decode_next_page(it, rd, file, fail) ==
    decode_loop([it EXCEPT !.page_strings_ = <<>>, !.string_idx_ = 0, !.buffer = @ + 1],
                rd, file, fail)

\* the constructor of StringColumnIterator from its first member on
new_iterator(it, rd, file) ==
    LET initialised(first) ==
            IF ~first.ok THEN [status |-> "throw", it |-> it, fail |-> rd.fail]
            ELSE decode_next_page(first.it, rd, file, rd.fail)
    IN  IF it.num_row_groups_ = 0 THEN [status |-> "false", it |-> it, fail |-> rd.fail]
        ELSE initialised(init_row_group(it, rd))

\* column_iterator(col_name) and the constructor: [status, it, fail]
column_iterator(rd, file, col_name) ==
    LET found(col_idx) ==
            IF col_idx < 0 \/ rd.columns_[col_idx + 1].type # Type_BYTE_ARRAY
            THEN [status |-> "throw", it |-> NoIterator, fail |-> rd.fail]
            ELSE new_iterator(
                     [NoIterator EXCEPT
                          !.col_idx_ = col_idx,
                          !.num_row_groups_ = Len(rd.metadata_.row_groups),
                          !.max_def_level_ = rd.columns_[col_idx + 1].max_def_level,
                          !.max_rep_level_ = rd.columns_[col_idx + 1].max_rep_level],
                     rd, file)
    IN  found(find_column(rd, col_name))

has_next(it) == it.string_idx_ < Len(it.page_strings_)

\* the pair (size, data) next() returns, with the bytes the pointer referred
\* to when it was taken
string_pair(it) ==
    [size |-> Len(it.page_strings_[it.string_idx_ + 1]),
     data |-> [buffer |-> it.buffer, index |-> it.string_idx_],
     bytes |-> it.page_strings_[it.string_idx_ + 1]]

\* next(): [status, it, fail, result]
next(it, rd, file, fail) ==
    LET decoded(d) == [status |-> IF d.status = "throw" THEN "throw" ELSE "ok",
                       it |-> d.it, fail |-> d.fail, result |-> <<string_pair(it)>>]
    IN  IF ~has_next(it)
        THEN [status |-> "throw", it |-> it, fail |-> fail, result |-> <<>>]
        ELSE IF it.string_idx_ + 1 >= Len(it.page_strings_)
        THEN decoded(decode_next_page([it EXCEPT !.string_idx_ = @ + 1], rd, file, fail))
        ELSE [status |-> "ok", it |-> [it EXCEPT !.string_idx_ = @ + 1], fail |-> fail,
              result |-> <<string_pair(it)>>]


\* the tagged-struct codec is not in use (the other specifications)
NoOp == [op |-> "none", fid |-> 0, type |-> 0, val |-> <<>>]

ThriftIdle ==
    /\ th_pc = "idle"
    /\ th_w = ThriftWriter
    /\ th_r = ThriftReader
    /\ th_op = NoOp
    /\ th_got = NoOp

\* the last call on the writer; num_columns is columns.size() of write_row_group
NoCall == [call |-> "none", thrown |-> FALSE, was_closed |-> FALSE, num_columns |-> 0]
NoRead == [op |-> "none", name |-> <<>>, row_group_idx |-> 0, col_idx |-> 0,
           row_group_arg |-> SizeT(0, 0), page_id |-> 0,
           status |-> "none", values |-> <<>>]

NoPageIterator == PageIterator(0, 0)

\* no page iterator has been made
PitIdle ==
    /\ pit = NoPageIterator
    /\ pit_status = "none"
    /\ pit_last = <<>>
    /\ pit_ids = <<>>

\* build_column_info and read_data_page are not exercised on their own
UnitIdle ==
    /\ sch_in = <<>>
    /\ dp_in = <<>>
    /\ dp_out = <<>>
    /\ col_in = <<>>
    /\ col_out = <<>>

\* no writer, reader or iterator is used (the codec specifications)
FileIdle ==
    /\ writer = ParquetWriter(<<>>)
    /\ w_alive = FALSE
    /\ w_call = NoCall
    /\ w_written = <<>>
    /\ reader = NoReader
    /\ r_status = "none"
    /\ r_calls = 0
    /\ r_res = NoRead
    /\ iter = NoIterator
    /\ it_status = "none"
    /\ it_last = <<>>
    /\ it_yielded = <<>>

----------------------------------------------------------------------------
(* The codec on its own: values are written one by one, the stream is      *)
(* finished, and the bytes are decoded asking for as many values as were   *)
(* written.                                                                *)

MaxRleLen == 10

\* bit widths exercised and, per width, the values fed to the encoder: the two
\* complementary bit patterns of that width (every bit position carries both a
\* 0 and a 1; widths above 8 give multi-byte run values)
RleBitWidths == {0, 1, 3, 9}
RleValues(bw) ==
    IF bw = 0 THEN {0} ELSE IF bw = 1 THEN {0, 1} ELSE IF bw = 3 THEN {2, 5} ELSE {170, 341}

RleStart ==
    /\ rle_pc = "writing"
    /\ rle_xs = <<>>
    /\ rle_enc \in {RleBpEncoder(bw) : bw \in RleBitWidths}
    /\ rle_bytes = <<>>
    /\ rle_out = <<>>

\* the codec is not used (the other specifications)
RleIdle ==
    /\ rle_pc = "idle"
    /\ rle_xs = <<>>
    /\ rle_enc = RleBpEncoder(0)
    /\ rle_bytes = <<>>
    /\ rle_out = <<>>

RleWriteValue ==
    /\ rle_pc = "writing"
    /\ Len(rle_xs) < MaxRleLen
    /\ \E v \in RleValues(rle_enc.bit_width) :
         /\ rle_enc' = WriteValue(rle_enc, v)
         /\ rle_xs' = Append(rle_xs, v)
    /\ UNCHANGED <<rle_pc, rle_bytes, rle_out, thriftVars, fileVars, pitVars, unitVars>>

RleFinishWrite ==
    /\ rle_pc = "writing"
    /\ rle_bytes' = FinishWrite(rle_enc)
    /\ rle_pc' = "finished"
    /\ UNCHANGED <<rle_xs, rle_enc, rle_out, thriftVars, fileVars, pitVars, unitVars>>

RleGetBatch ==
    /\ rle_pc = "finished"
    /\ rle_out' = get_batch(rle_bytes, rle_enc.bit_width, RleDecoder, Len(rle_xs), <<>>)
    /\ rle_pc' = "decoded"
    /\ UNCHANGED <<rle_xs, rle_enc, rle_bytes, thriftVars, fileVars, pitVars, unitVars>>

NextRle == RleWriteValue \/ RleFinishWrite \/ RleGetBatch

InitRle == RleStart /\ ThriftIdle /\ FileIdle /\ PitIdle /\ UnitIdle

SpecRle == InitRle /\ [][NextRle]_vars

\* C2: the hybrid codec round-trips: decoding the bytes produced for xs, asking
\* for |xs| values, returns exactly xs, never the zero padding of the last
\* bit-packed group nor a substituted zero.
C2_RleRoundTrip ==
    rle_pc = "decoded" =>
        /\ rle_out.out = rle_xs
        /\ ~rle_out.short
        /\ ~rle_out.d.oob

\* a stream holding a repeated run, a full bit-packed group and a padded one
C2_Witness ==
    /\ rle_pc = "decoded"
    /\ Len(rle_xs) = MaxRleLen
    /\ rle_enc.bit_width = 3
    /\ rle_xs[1] # rle_xs[2]
    /\ rle_xs[9] # rle_xs[10]
    /\ rle_out.out = rle_xs

----------------------------------------------------------------------------
(* The tagged-struct codec on its own.  The writer issues one call at a     *)
(* time and the reader then reads that call's bytes back with the matching  *)
(* read calls.  th_w.buf holds the bytes written and not yet read: neither  *)
(* side looks again at a byte the reader has passed, so ThriftRead drops    *)
(* them and call sequences of any length stay within a finite state space.  *)
(* An op is [op, fid, type, val].                                           *)

MaxThriftDepth == 2

FieldIds == {-2, 0, 1, 2, 17, 40}
ThriftI32s == {-1, 0, 300}
ThriftI64s == {-70000, 536870912}
ThriftStrings == {<<>>, <<104, 105>>}
ThriftLists == {<<CT_STRUCT, 0>>, <<CT_STRUCT, 14>>, <<CT_STRUCT, 15>>, <<CT_I32, 200>>}

ThriftStart ==
    /\ th_pc = "write"
    /\ th_w = ThriftWriter
    /\ th_r = ThriftReader
    /\ th_op = NoOp
    /\ th_got = NoOp

ThriftWrote(tw, op) ==
    /\ th_pc = "write"
    /\ th_w' = tw
    /\ th_op' = op
    /\ th_pc' = "read"
    /\ th_got' = NoOp
    /\ UNCHANGED <<th_r, rleVars, fileVars, pitVars, unitVars>>

ThWriteBool ==
    \E fid \in FieldIds, v \in BOOLEAN :
        ThriftWrote(write_bool(th_w, fid, v),
                    [op |-> "bool", fid |-> fid,
                     type |-> IF v THEN CT_BOOLEAN_TRUE ELSE CT_BOOLEAN_FALSE,
                     val |-> <<IF v THEN 1 ELSE 0>>])

ThWriteI32 ==
    \E fid \in FieldIds, v \in ThriftI32s :
        ThriftWrote(write_i32(th_w, fid, v),
                    [op |-> "i32", fid |-> fid, type |-> CT_I32, val |-> <<v>>])

ThWriteI64 ==
    \E fid \in FieldIds, v \in ThriftI64s :
        ThriftWrote(write_i64(th_w, fid, v),
                    [op |-> "i64", fid |-> fid, type |-> CT_I64, val |-> <<v>>])

ThWriteString ==
    \E fid \in FieldIds, v \in ThriftStrings :
        ThriftWrote(write_string(th_w, fid, v),
                    [op |-> "string", fid |-> fid, type |-> CT_BINARY, val |-> v])

ThWriteListBegin ==
    \E fid \in FieldIds, l \in ThriftLists :
        ThriftWrote(write_list_begin(th_w, fid, l[1], l[2]),
                    [op |-> "list", fid |-> fid, type |-> CT_LIST, val |-> l])

ThWriteStructBegin ==
    /\ Len(th_w.field_id_stack) < MaxThriftDepth
    /\ \E fid \in FieldIds :
        ThriftWrote(write_struct_begin(th_w, fid),
                    [op |-> "struct_begin", fid |-> fid, type |-> CT_STRUCT, val |-> <<>>])

ThWriteStructEnd ==
    /\ th_w.field_id_stack # <<>>
    /\ ThriftWrote(write_struct_end(th_w),
                   [op |-> "struct_end", fid |-> 0, type |-> CT_STOP, val |-> <<>>])

ThPushFieldState ==
    /\ Len(th_w.field_id_stack) < MaxThriftDepth
    /\ ThriftWrote(push_field_state(th_w),
                   [op |-> "push", fid |-> 0, type |-> CT_STRUCT, val |-> <<>>])

ThPopFieldState ==
    /\ th_w.field_id_stack # <<>>
    /\ ThriftWrote(pop_field_state(th_w),
                   [op |-> "pop", fid |-> 0, type |-> CT_STRUCT, val |-> <<>>])

ThWriteStop ==
    ThriftWrote(write_stop(th_w), [op |-> "stop", fid |-> 0, type |-> CT_STOP, val |-> <<>>])

\* the read calls that mirror one write call: [r, got]
ThriftReadOp(buf, r, op) ==
    IF op = "push" THEN
        [r |-> read_struct_begin(r),
         got |-> [op |-> op, fid |-> 0, type |-> CT_STRUCT, val |-> <<>>]]
    ELSE IF op = "pop" THEN
        [r |-> read_struct_end(r),
         got |-> [op |-> op, fid |-> 0, type |-> CT_STRUCT, val |-> <<>>]]
    ELSE
    LET fh == read_field_begin(buf, r)
        hd == [op |-> op, fid |-> fh.field_id, type |-> fh.type]
    IN
    IF op = "bool" THEN
        [r |-> fh.r, got |-> hd @@ [val |-> <<IF read_bool(fh.type) THEN 1 ELSE 0>>]]
    ELSE IF op \in {"i32", "i64"} THEN
        LET x == IF op = "i32" THEN read_i32(buf, fh.r) ELSE read_i64(buf, fh.r) IN
        [r |-> x.r, got |-> hd @@ [val |-> <<x.v>>]]
    ELSE IF op = "string" THEN
        LET x == read_string(buf, fh.r) IN [r |-> x.r, got |-> hd @@ [val |-> x.v]]
    ELSE IF op = "list" THEN
        LET lh == read_list_begin(buf, fh.r) IN
        [r |-> lh.r, got |-> hd @@ [val |-> <<lh.elem_type, lh.count>>]]
    ELSE IF op = "struct_begin" THEN
        [r |-> read_struct_begin(fh.r), got |-> hd @@ [val |-> <<>>]]
    ELSE IF op = "struct_end" THEN
        [r |-> read_struct_end(fh.r), got |-> hd @@ [val |-> <<>>]]
    ELSE
        [r |-> fh.r, got |-> hd @@ [val |-> <<>>]]

ThriftRead ==
    /\ th_pc = "read"
    /\ LET x == ThriftReadOp(th_w.buf, th_r, th_op.op) IN
        /\ th_got' = x.got
        /\ th_r' = [x.r EXCEPT !.pos = 0]
        /\ th_w' = [th_w EXCEPT !.buf = SubSeq(@, x.r.pos + 1, Len(@))]
    /\ th_pc' = "write"
    /\ UNCHANGED <<th_op, rleVars, fileVars, pitVars, unitVars>>

NextThrift ==
    \/ ThWriteBool \/ ThWriteI32 \/ ThWriteI64 \/ ThWriteString \/ ThWriteListBegin
    \/ ThWriteStructBegin \/ ThWriteStructEnd \/ ThPushFieldState \/ ThPopFieldState
    \/ ThWriteStop \/ ThriftRead

InitThrift == ThriftStart /\ RleIdle /\ FileIdle /\ PitIdle /\ UnitIdle

SpecThrift == InitThrift /\ [][NextThrift]_vars

\* C3: the reader reads back what the writer wrote: the same field id, type
\* tag, value and list count for every call, consuming exactly the bytes of
\* that call, and after every call (nested struct and list element ends
\* included) the reader's previous-field-id counter and its saved counters equal
\* the writer's.
C3_ThriftRoundTrip ==
    th_pc = "write" =>
        /\ th_got = th_op
        /\ th_r.ok
        /\ th_w.buf = <<>>
        /\ th_r.last_field_id = th_w.last_field_id
        /\ th_r.field_id_stack = th_w.field_id_stack

\* a field with a negative id (long-form header) read back two structs deep
C3_Witness ==
    /\ th_pc = "write"
    /\ th_op.op = "i64"
    /\ th_got = th_op
    /\ th_op.fid = -2
    /\ th_w.field_id_stack = <<17, 40>>

----------------------------------------------------------------------------
(* A file is written by a ParquetWriter over one of a few schemas, then     *)
(* opened by a ParquetReader once the writer is gone; the reader's columns  *)
(* are read whole, chunk by chunk, and through a string iterator.           *)

MaxRowGroups == 2
MaxRowsPerGroup == 2
MaxRows == 3
PatternRows == 10
MaxCalls == 2

\* a string that fills a page on its own, and whose bytes differ
BIG == [i \in 1..1020 |-> 65 + (i % 7)]

ColumnSpec(name, type, repetition) ==
    [name |-> name, type |-> type, repetition |-> repetition]

Schemas ==
    { <<ColumnSpec(<<115>>, Type_BYTE_ARRAY, OPTIONAL)>>,
      <<ColumnSpec(<<98>>, Type_BOOLEAN, REQUIRED),
        ColumnSpec(<<115>>, Type_BYTE_ARRAY, REQUIRED)>>,
      <<ColumnSpec(<<108>>, Type_INT64, REQUIRED),
        ColumnSpec(<<115>>, Type_BYTE_ARRAY, REQUIRED)>>,
      <<ColumnSpec(<<105>>, Type_INT32, OPTIONAL)>> }

\* the two data values of each type, in a fixed order
Data(type) ==
    IF type = Type_BOOLEAN THEN <<FALSE, TRUE>>
    ELSE IF type = Type_INT32 THEN <<-2, 300>>
    ELSE IF type = Type_INT64 THEN <<-70000, 5>>
    ELSE <<<<>>, BIG>>

ColumnValues(col) ==
    {ValueOf(Data(col.type)[i]) : i \in 1..2}
        \cup (IF col.repetition = OPTIONAL THEN {NullValue(col.type)} ELSE {})

\* every row group of n rows over the columns
RECURSIVE RowGroups(_, _)
RowGroups(cols, n) ==
    IF cols = <<>> THEN {<<>>}
    ELSE {<<c>> \o rest : c \in [1..n -> ColumnValues(Head(cols))],
                          rest \in RowGroups(Tail(cols), n)}

\* a long column with few distinct values: all equal (1), one null among
\* equal values (2), two values in turn (3)
PatternColumn(col, p) ==
    LET v1 == ValueOf(Data(col.type)[1])
        v2 == ValueOf(Data(col.type)[2])
    IN  [r \in 1..PatternRows |->
            IF p = 1 THEN v1
            ELSE IF p = 2
            THEN IF r = 2 /\ col.repetition = OPTIONAL THEN NullValue(col.type) ELSE v2
            ELSE IF r % 2 = 1 THEN v1 ELSE v2]

PatternRowGroups(cols) ==
    {[i \in 1..Len(cols) |-> PatternColumn(cols[i], p)] : p \in 1..3}

RECURSIVE SumRows(_)
SumRows(row_groups) ==
    IF row_groups = <<>> THEN 0 ELSE Head(row_groups).num_rows + SumRows(Tail(row_groups))

IsPattern(rg) == rg.num_rows >= PatternRows
FreeRows(row_groups) == SumRows(SelectSeq(row_groups, LAMBDA rg : ~IsPattern(rg)))

\* the row groups the writer may be handed next
RowGroupInputs(wr) ==
    UNION {RowGroups(wr.columns_, n) :
              n \in 1..Min(MaxRowsPerGroup, MaxRows - FreeRows(wr.row_groups_))}
        \cup (IF \E i \in 1..Len(wr.row_groups_) : IsPattern(wr.row_groups_[i])
              THEN {} ELSE PatternRowGroups(wr.columns_))

Init ==
    /\ writer \in {ParquetWriter(cols) : cols \in Schemas}
    /\ w_alive = TRUE
    /\ w_call = NoCall
    /\ w_written = [i \in 1..Len(writer.columns_) |-> <<>>]
    /\ reader = NoReader
    /\ r_status = "none"
    /\ r_calls = 0
    /\ r_res = NoRead
    /\ iter = NoIterator
    /\ it_status = "none"
    /\ it_last = <<>>
    /\ it_yielded = <<>>
    /\ RleIdle /\ ThriftIdle /\ PitIdle /\ UnitIdle

\* writer.write_row_group(columns)
WriteRowGroup ==
    /\ w_alive
    /\ Len(writer.row_groups_) < MaxRowGroups
    /\ \E columns \in RowGroupInputs(writer) :
          LET returned(x) ==
                  /\ writer' = x.w
                  /\ w_call' = [call |-> "write_row_group", thrown |-> x.thrown,
                                was_closed |-> writer.closed_,
                                num_columns |-> Len(columns)]
                  /\ w_written' = IF x.thrown THEN w_written
                                  ELSE [i \in 1..Len(w_written) |->
                                           w_written[i] \o columns[i]]
          IN  returned(write_row_group(writer, columns))
    /\ UNCHANGED <<w_alive, readerVars, iterVars, rleVars, thriftVars, pitVars, unitVars>>

\* writer.close()
Close ==
    /\ w_alive
    /\ writer' = close(writer)
    /\ w_call' = [call |-> "close", thrown |-> FALSE, was_closed |-> writer.closed_,
                  num_columns |-> 0]
    /\ UNCHANGED <<w_alive, w_written, readerVars, iterVars,
                   rleVars, thriftVars, pitVars, unitVars>>

\* the writer goes out of scope
Destroy ==
    /\ w_alive
    /\ writer' = destroy(writer)
    /\ w_alive' = FALSE
    /\ w_call' = NoCall
    /\ UNCHANGED <<w_written, readerVars, iterVars, rleVars, thriftVars, pitVars, unitVars>>

\* the names asked for: the columns of the schema and a name that is none
ColumnNames == {writer.columns_[i].name : i \in 1..Len(writer.columns_)} \cup {<<122>>}

\* reader.open(path) on the finished file
Open ==
    /\ ~w_alive
    /\ r_status = "none"
    /\ \E o \in open(writer.file) :
          /\ r_status' = o.status
          /\ reader' = o.rd
    /\ UNCHANGED <<writerVars, r_calls, r_res, iterVars,
                   rleVars, thriftVars, pitVars, unitVars>>

\* reader.read_column(name)
ReadColumn ==
    /\ r_status = "ok"
    /\ r_calls < MaxCalls
    /\ r_calls' = r_calls + 1
    /\ \E name \in ColumnNames :
          LET returned(x) ==
                  /\ r_res' = [NoRead EXCEPT !.op = "read_column", !.name = name,
                                             !.status = x.status, !.values = x.values]
                  /\ reader' = [reader EXCEPT !.fail = x.fail]
          IN  returned(read_column(reader, writer.file, name))
    /\ UNCHANGED <<writerVars, r_status, iterVars, rleVars, thriftVars, pitVars, unitVars>>

\* reader.read_column_by_idx(row_group_idx, col_idx)
ReadColumnByIdx ==
    /\ r_status = "ok"
    /\ r_calls < MaxCalls
    /\ r_calls' = r_calls + 1
    /\ \E row_group_idx \in 0..Len(reader.metadata_.row_groups),
          col_idx \in 0..Len(reader.columns_) :
          LET returned(x) ==
                  /\ r_res' = [NoRead EXCEPT !.op = "read_column_by_idx",
                                             !.row_group_idx = row_group_idx,
                                             !.col_idx = col_idx,
                                             !.status = x.status, !.values = x.values]
                  /\ reader' = [reader EXCEPT !.fail = x.fail]
          IN  returned(read_column_by_idx(reader, writer.file, row_group_idx, col_idx))
    /\ UNCHANGED <<writerVars, r_status, iterVars, rleVars, thriftVars, pitVars, unitVars>>

\* reader.column_iterator(name): the iterator is "live" once constructed
ColumnIterator ==
    /\ r_status = "ok"
    /\ r_calls < MaxCalls
    /\ r_calls' = r_calls + 1
    /\ it_status = "none"
    /\ \E name \in ColumnNames :
          LET returned(x) ==
                  /\ iter' = x.it
                  /\ it_status' = IF x.status = "throw" THEN "throw" ELSE "live"
                  /\ reader' = [reader EXCEPT !.fail = x.fail]
          IN  returned(column_iterator(reader, writer.file, name))
    /\ UNCHANGED <<writerVars, r_status, r_res, it_last, it_yielded,
                   rleVars, thriftVars, pitVars, unitVars>>

\* what the caller reads through a pair that next() returned: the string
\* while the pointer's page buffer is the iterator's, anything once that
\* buffer has been cleared (the string, or bytes that are not the string's)
Deref(pair, it_after) ==
    IF pair.data.buffer = it_after.buffer THEN {pair.bytes}
    ELSE {pair.bytes, Zeros(pair.size)}

\* if (it.has_next()) { auto [size, data] = it.next(); use(data, size); }
ItNext ==
    /\ it_status = "live"
    /\ has_next(iter)
    /\ LET returned(x) ==
               /\ iter' = x.it
               /\ it_status' = IF x.status = "throw" THEN "throw" ELSE "live"
               /\ IF x.status = "throw"
                  THEN it_last' = <<>> /\ it_yielded' = it_yielded
                  ELSE /\ \E read \in Deref(x.result[1], x.it) :
                             it_last' = <<[x.result[1] EXCEPT !.bytes = read]>>
                       /\ it_yielded' = Append(it_yielded, x.result[1].bytes)
               /\ reader' = [reader EXCEPT !.fail = x.fail]
       IN  returned(next(iter, reader, writer.file, reader.fail))
    /\ UNCHANGED <<writerVars, r_status, r_calls, r_res,
                   rleVars, thriftVars, pitVars, unitVars>>

Next ==
    \/ WriteRowGroup
    \/ Close
    \/ Destroy
    \/ Open
    \/ ReadColumn
    \/ ReadColumnByIdx
    \/ ColumnIterator
    \/ ItNext

Spec == Init /\ [][Next]_vars

----------------------------------------------------------------------------
(* Properties of the written file and of the reader on it *)

TotalRowsWritten == IF w_written = <<>> THEN 0 ELSE Len(w_written[1])
ColumnOf(name) == CHOOSE c \in 1..Len(writer.columns_) : writer.columns_[c].name = name
NonNull(values) == LET data(present) == [i \in 1..Len(present) |-> present[i].data]
                   IN  data(SelectSeq(values, LAMBDA v : ~v.is_null))

\* C1: the values round-trip.  Stated for the calls that return: once open()
\* has returned true num_rows() is the number of rows written, and a
\* read_column(name) that returns gives the values written to that column, in
\* row-group order, nulls in position.
C1_RoundTrip ==
    /\ r_status = "ok" => reader.metadata_.num_rows = TotalRowsWritten
    /\ (r_res.op = "read_column" /\ r_res.status = "ok")
          => r_res.values = w_written[ColumnOf(r_res.name)]

\* C4: read_all on a column chunk of the file returns as many entries as the
\* chunk's metadata declares values.
C4_ReadAllCount ==
    (/\ r_res.op = "read_column_by_idx"
     /\ r_res.row_group_idx < Len(reader.metadata_.row_groups)
     /\ r_res.col_idx < Len(reader.columns_))
    => /\ r_res.status = "ok"
       /\ Len(r_res.values) =
            reader.metadata_.row_groups[r_res.row_group_idx + 1]
                .columns[reader.columns_[r_res.col_idx + 1].column_index + 1]
                .meta_data[1].num_values

\* C5: the strings obtained from the iterator are the non-null values of
\* read_column on the same column, in order: each string the caller reads is
\* the next of them, and has_next() is false only after the last.
C5_IteratorAgrees ==
    (it_status = "live" /\ (it_last # <<>> \/ ~has_next(iter)))
    => LET agrees(status, strings) ==
               /\ status = "ok"
               /\ Len(it_yielded) <= Len(strings)
               /\ it_last # <<>> => it_last[1].bytes = strings[Len(it_yielded)]
               /\ ~has_next(iter) => Len(it_yielded) = Len(strings)
           column(col) == agrees(col.status, NonNull(col.values))
       IN  column(read_column(reader, writer.file,
                              reader.columns_[iter.col_idx_ + 1].name))

\* C6: the pointer of the pair returned by next() refers to the iterator's
\* current page buffer: the buffer has not been cleared since the pointer was
\* taken.
C6_PointerLive ==
    (it_status = "live" /\ it_last # <<>>) => it_last[1].data.buffer = iter.buffer

\* the data pages the writer emitted, as page index entries
DataPagesEmitted ==
    [i \in 1..Len(writer.emitted) |->
        [row_group_idx |-> writer.emitted[i].row_group_idx,
         column_idx |-> writer.emitted[i].column_idx,
         data_offset |-> writer.emitted[i].data_offset,
         data_size |-> writer.emitted[i].data_size]]

\* C7: the page index that open() builds for a file of the writer is the list
\* of the data pages the writer emitted, in order, each with the position of
\* its payload, its size and its chunk.
C7_PageIndex ==
    r_status \in {"ok", "hang"} => reader.page_index_ = DataPagesEmitted

\* the bytes close() appends to the file of wr
Trailer(wr) == with_footer(<<>>, footer_bytes(wr))

\* C9: the descriptor, its length and the trailing magic are written exactly
\* once: the step that closes the writer appends them, no step changes the
\* file of a closed writer (a second close(), a destruction after close(), a
\* rejected write_row_group), and a destroyed writer is closed.
C9_CloseOnce ==
    [][/\ writer.closed_ => (writer'.closed_ /\ writer'.file = writer.file)
       /\ (~writer.closed_ /\ writer'.closed_)
             => writer'.file = writer.file \o Trailer(writer)
       /\ ~w_alive' => writer'.closed_]_vars

C9_Witness ==
    /\ w_call.call = "close"
    /\ w_call.was_closed
    /\ Len(writer.row_groups_) = MaxRowGroups
    /\ LET last == writer.emitted[Len(writer.emitted)]
       IN  Len(writer.file) = last.data_offset + last.data_size + Len(Trailer(writer))
    /\ SubSeq(writer.file, Len(writer.file) - 3, Len(writer.file)) = PAR1

\* C10: the writer's running total is the sum of the num_rows of the row
\* groups recorded, and the num_rows of the descriptor a reader decodes from
\* the closed file is the sum of the num_rows of its row-group table.
C10_TotalRows ==
    /\ writer.total_rows_ = SumRows(writer.row_groups_)
    /\ r_status \in {"ok", "hang"}
          => /\ reader.metadata_.num_rows = SumRows(reader.metadata_.row_groups)
             /\ reader.metadata_.num_rows = TotalRowsWritten

C10_Witness ==
    /\ r_status = "ok"
    /\ Len(reader.metadata_.row_groups) = 2
    /\ reader.metadata_.row_groups[1].num_rows = PatternRows
    /\ reader.metadata_.row_groups[2].num_rows = 2
    /\ reader.metadata_.num_rows = PatternRows + 2

----------------------------------------------------------------------------
(* open() on files that no writer of the model produced: a head, some page  *)
(* bytes, a descriptor, a stored 32-bit length and a tail, in every         *)
(* combination, and a few files shorter than the envelope.                  *)

MaxPad == 1

Heads == {PAR1, <<80, 65, 82, 50>>}
Tails == {PAR1, <<80, 65, 82, 0>>}
Descriptors == {footer_bytes(ParquetWriter(cols)) : cols \in Schemas} \cup {<<>>, <<0>>}

\* the stored length: the descriptor's, one more, one that reaches into the
\* head magic, the largest positive one, and two for which length + 8
\* exceeds 32 bits
StoredLengths(descriptor, pad) ==
    {LEBytes(Len(descriptor), 4), LEBytes(Len(descriptor) + 1, 4),
     LEBytes(Len(descriptor) + pad + 1, 4), <<255, 255, 255, 127>>,
     <<248, 255, 255, 255>>, <<255, 255, 255, 255>>}

EnvelopeFiles ==
    {head \o Zeros(pad) \o descriptor \o len \o tail :
        head \in Heads, tail \in Tails, pad \in 0..MaxPad, descriptor \in Descriptors,
        len \in UNION {StoredLengths(d, p) : d \in Descriptors, p \in 0..MaxPad}}

ShortFiles ==
    {<<>>, PAR1, PAR1 \o PAR1, PAR1 \o <<0, 0, 0>> \o PAR1,
     SubSeq(PAR1, 1, 3) \o <<0, 0, 0, 0, 0>> \o PAR1}

\* the file is on disk; there is no writer
InitOpen ==
    /\ writer \in {[ParquetWriter(<<>>) EXCEPT !.file = f, !.closed_ = TRUE] :
                     f \in EnvelopeFiles \cup ShortFiles}
    /\ w_alive = FALSE
    /\ w_call = NoCall
    /\ w_written = <<>>
    /\ reader = NoReader
    /\ r_status = "none"
    /\ r_calls = 0
    /\ r_res = NoRead
    /\ iter = NoIterator
    /\ it_status = "none"
    /\ it_last = <<>>
    /\ it_yielded = <<>>
    /\ RleIdle /\ ThriftIdle /\ PitIdle /\ UnitIdle

NextOpen == Open

SpecOpen == InitOpen /\ [][NextOpen]_vars

\* C8: open() returns false, decoding nothing, for a file shorter than 12
\* bytes or without the magic at either end; a file it accepts has its
\* descriptor decoded from the bytes [file_size - 8 - length, file_size - 8)
\* of the file, length being the stored length.
C8_OpenEnvelope ==
    LET file == writer.file
        file_size == Len(file)
        bad == \/ file_size < 12
               \/ SubSeq(file, 1, 4) # PAR1
               \/ SubSeq(file, file_size - 3, file_size) # PAR1
    IN  /\ (r_status # "none" /\ bad)
            => (r_status = "false" /\ reader.footer_range = <<>>)
        /\ r_status \in {"ok", "hang"}
            => /\ reader.footer_range # <<>>
               /\ reader.footer_range[1].offset >= 0
               /\ reader.footer_range[1].offset + reader.footer_range[1].length
                     = file_size - 8
               /\ LEBytes(reader.footer_range[1].length, 4)
                     = SubSeq(file, file_size - 7, file_size - 4)

----------------------------------------------------------------------------
(* build_column_info and build_column_index on their own: the descriptor's  *)
(* schema list is the pre-order listing of a tree.  A tree is given by the  *)
(* depth and the repetition of each node below the root, in pre-order; a    *)
(* node's depth is at most one more than its predecessor's.                 *)

MaxNodes == 4

Repetitions == {<<>>, <<REQUIRED>>, <<OPTIONAL>>, <<REPEATED>>}

DepthSeqs(n) ==
    {d \in [1..n -> 1..n] : d[1] = 1 /\ \A i \in 1..(n - 1) : d[i + 1] <= d[i] + 1}

\* the names of the nodes repeat with period cycle: all different when the
\* period exceeds the number of nodes
SchemaTrees ==
    UNION {{[depth |-> d, rep |-> r, cycle |-> m, root |-> rt] :
               d \in DepthSeqs(n), r \in [1..n -> Repetitions], m \in {2, MaxNodes + 1},
               rt \in {<<>>, <<REPEATED>>}} :
           n \in 1..MaxNodes}

NodeName(t, i) == <<97 + (i % t.cycle)>>

\* node j is node i or one of its ancestors: every node after j up to i lies
\* deeper than j
OnPath(t, j, i) == j <= i /\ \A k \in (j + 1)..i : t.depth[k] > t.depth[j]

ChildrenOf(t, i) ==
    {j \in 1..Len(t.depth) : j > i /\ t.depth[j] = t.depth[i] + 1 /\ OnPath(t, i, j)}

IsLeaf(t, i) == ChildrenOf(t, i) = {}

\* the schema list of the descriptor: the root, then the nodes in pre-order
SchemaOf(t) ==
    <<[SchemaElement EXCEPT
          !.name = <<115, 99, 104, 101, 109, 97>>,
          !.repetition_type = t.root,
          !.num_children = <<Cardinality({i \in 1..Len(t.depth) : t.depth[i] = 1})>>]>>
    \o [i \in 1..Len(t.depth) |->
          [SchemaElement EXCEPT
              !.name = NodeName(t, i),
              !.repetition_type = t.rep[i],
              !.type = IF IsLeaf(t, i) THEN <<Type_INT32>> ELSE <<>>,
              !.num_children = IF IsLeaf(t, i) THEN <<>>
                               ELSE <<Cardinality(ChildrenOf(t, i))>>]]

\* the descriptor has been decoded; its columns have not been built
InitSchema ==
    /\ sch_in \in SchemaTrees
    /\ dp_in = <<>>
    /\ dp_out = <<>>
    /\ col_in = <<>>
    /\ col_out = <<>>
    /\ writer = ParquetWriter(<<>>)
    /\ w_alive = FALSE
    /\ w_call = NoCall
    /\ w_written = <<>>
    /\ reader = [NoReader EXCEPT !.metadata_.schema = SchemaOf(sch_in)]
    /\ r_status = "none"
    /\ r_calls = 0
    /\ r_res = NoRead
    /\ iter = NoIterator
    /\ it_status = "none"
    /\ it_last = <<>>
    /\ it_yielded = <<>>
    /\ RleIdle /\ ThriftIdle /\ PitIdle

\* open(): build_column_info(); build_column_index() (no row group follows)
BuildColumnInfo ==
    /\ r_status = "none"
    /\ LET built(columns) ==
               reader' = [reader EXCEPT !.columns_ = columns,
                                        !.column_name_to_idx_ = build_column_index(columns)]
       IN  built(build_column_info(reader.metadata_))
    /\ r_status' = "ok"
    /\ UNCHANGED <<writerVars, r_calls, r_res, iterVars,
                   rleVars, thriftVars, pitVars, unitVars>>

\* reader.find_column(name)
FindColumn ==
    /\ r_status = "ok"
    /\ \E i \in 0..MaxNodes :
          r_res' = [NoRead EXCEPT !.op = "find_column", !.name = <<97 + i>>,
                                  !.col_idx = find_column(reader, <<97 + i>>)]
    /\ UNCHANGED <<writerVars, reader, r_status, r_calls, iterVars,
                   rleVars, thriftVars, pitVars, unitVars>>

NextSchema == BuildColumnInfo \/ FindColumn

SpecSchema == InitSchema /\ [][NextSchema]_vars

\* the leaves of the tree, in pre-order
LeavesOf(t) ==
    LET RECURSIVE from(_)
        from(i) == IF i > Len(t.depth) THEN <<>>
                   ELSE (IF IsLeaf(t, i) THEN <<i>> ELSE <<>>) \o from(i + 1)
    IN  from(1)

DefLevel(t, i) ==
    Cardinality({j \in 1..i : OnPath(t, j, i) /\ t.rep[j] \in {<<OPTIONAL>>, <<REPEATED>>}})
RepLevel(t, i) ==
    Cardinality({j \in 1..i : OnPath(t, j, i) /\ t.rep[j] = <<REPEATED>>})

\* C11: the columns are the leaves of the schema tree in pre-order, numbered
\* 0, 1, 2, ..., each with max_def_level the number of OPTIONAL or REPEATED
\* nodes and max_rep_level the number of REPEATED nodes on its path from the
\* root's child down to it; so a leaf below (or at) an OPTIONAL node has
\* max_def_level >= 1 and one below a REPEATED node has both levels >= 1.
C11_ColumnLevels ==
    (sch_in # <<>> /\ r_status = "ok")
    => LET columns(leaves) ==
               /\ Len(reader.columns_) = Len(leaves)
               /\ \A k \in 1..Len(leaves) :
                     LET col == reader.columns_[k] IN
                     /\ col.name = NodeName(sch_in, leaves[k])
                     /\ col.column_index = k - 1
                     /\ col.max_def_level = DefLevel(sch_in, leaves[k])
                     /\ col.max_rep_level = RepLevel(sch_in, leaves[k])
                     /\ \A j \in 1..leaves[k] :
                           OnPath(sch_in, j, leaves[k])
                           => /\ sch_in.rep[j] = <<OPTIONAL>> => col.max_def_level >= 1
                              /\ sch_in.rep[j] = <<REPEATED>>
                                    => col.max_def_level >= 1 /\ col.max_rep_level >= 1
       IN  columns(LeavesOf(sch_in))

\* a leaf three levels down, below a REPEATED and an OPTIONAL group, that
\* is followed by a leaf one level down
C11_Witness ==
    /\ sch_in # <<>>
    /\ r_status = "ok"
    /\ sch_in.depth = <<1, 2, 3, 1>>
    /\ sch_in.rep = <<<<REPEATED>>, <<OPTIONAL>>, <<REPEATED>>, <<REQUIRED>>>>
    /\ sch_in.root = <<REPEATED>>
    /\ Len(reader.columns_) = 2
    /\ reader.columns_[1].max_def_level = 3
    /\ reader.columns_[1].max_rep_level = 2
    /\ reader.columns_[2].max_def_level = 0

\* C12: find_column(name) gives the lowest index among the leaves of that
\* name (and -1 when there is none).
C12_FirstByName ==
    (sch_in # <<>> /\ r_res.op = "find_column")
    => LET named == {k \in 1..Len(reader.columns_) : reader.columns_[k].name = r_res.name}
       IN  IF named = {} THEN r_res.col_idx = -1
           ELSE \A k \in named : r_res.col_idx <= k - 1

----------------------------------------------------------------------------
(* read_data_page on its own, on a dictionary-encoded page.  The page is    *)
(* the writer's, encoded against a dictionary of three values; the reader   *)
(* is handed the first dict_size of them, so the ids of the others lie      *)
(* outside its dictionary.                                                  *)

MaxSlots == 3

DictValues == <<ValueOf(7), ValueOf(8), ValueOf(9)>>

PageInputs ==
    UNION {{[values |-> v, max_def_level |-> 0, dict_size |-> k] :
               v \in [1..n -> {DictValues[i] : i \in 1..Len(DictValues)}],
               k \in 0..Len(DictValues)}
           \cup {[values |-> v, max_def_level |-> 1, dict_size |-> k] :
                    v \in [1..n -> {DictValues[i] : i \in 1..Len(DictValues)}
                                       \cup {NullValue(Type_INT32)}],
                    k \in 0..Len(DictValues)} :
           n \in 1..MaxSlots}

InitPage ==
    /\ dp_in \in PageInputs
    /\ dp_out = <<>>
    /\ sch_in = <<>>
    /\ col_in = <<>>
    /\ col_out = <<>>
    /\ RleIdle /\ ThriftIdle /\ FileIdle /\ PitIdle

\* ColumnReader::read_data_page(data, size, header, &dictionary)
ReadDataPage ==
    /\ dp_in # <<>>
    /\ dp_out = <<>>
    /\ LET returned(x) == dp_out' = <<x>>
           decoded(page) ==
               returned(read_data_page(
                   page.payload,
                   [DataPageHeader EXCEPT !.num_values = Len(dp_in.values),
                                          !.encoding = Encoding_RLE_DICTIONARY],
                   <<SubSeq(DictValues, 1, dp_in.dict_size)>>,
                   Type_INT32, dp_in.max_def_level, 0))
       IN  decoded(encode_dict_data_page(
                       dp_in.values,
                       [use_dictionary |-> TRUE, dict_values |-> DictValues],
                       dp_in.max_def_level))
    /\ UNCHANGED <<dp_in, sch_in, col_in, col_out, rleVars, thriftVars, fileVars, pitVars>>

NextPage == ReadDataPage

SpecPage == InitPage /\ [][NextPage]_vars

\* C13: a data page whose ids may lie outside the dictionary is decoded
\* without an error into num_values entries; a slot whose id is outside the
\* dictionary is null, and every other slot is what it is when all ids are
\* inside: null for a null, the dictionary's value for an id.
C13_BadIndexIsNull ==
    dp_out # <<>>
    => /\ dp_out[1].ok
       /\ Len(dp_out[1].values) = Len(dp_in.values)
       /\ \A i \in 1..Len(dp_in.values) :
             dp_out[1].values[i] =
                IF dp_in.values[i].is_null
                   \/ dict_map([dict_values |-> DictValues], dp_in.values[i]) >= dp_in.dict_size
                THEN NullValue(Type_INT32)
                ELSE dp_in.values[i]

\* an id outside the dictionary, then a null, then an id inside it
C13_Witness ==
    /\ dp_out # <<>>
    /\ dp_in.dict_size = 2
    /\ dp_in.values = <<ValueOf(9), NullValue(Type_INT32), ValueOf(8)>>
    /\ dp_out[1].values = <<NullValue(Type_INT32), NullValue(Type_INT32), ValueOf(8)>>

\* the payload of the i-th data page the writer emitted, as it lies in the file
emitted_payload(i) ==
    SubSeq(writer.file, writer.emitted[i].data_offset + 1,
           writer.emitted[i].data_offset + writer.emitted[i].data_size)

\* the values handed to the writer for the chunk of the i-th emitted page
emitted_chunk_values(i) ==
    LET rg == writer.emitted[i].row_group_idx
        before == SumRows(SubSeq(writer.row_groups_, 1, rg))
    IN  SubSeq(w_written[writer.emitted[i].column_idx + 1], before + 1,
               before + writer.row_groups_[rg + 1].num_rows)

\* the i-th emitted page is the only page of a plain chunk of a REQUIRED BOOLEAN column
plain_boolean_page(i) ==
    LET e == writer.emitted[i] IN
    /\ writer.columns_[e.column_idx + 1].type = Type_BOOLEAN
    /\ writer.columns_[e.column_idx + 1].repetition = REQUIRED
    /\ writer.row_groups_[e.row_group_idx + 1].columns[e.column_idx + 1].encoding
           = Encoding_PLAIN
    /\ \A j \in 1..Len(writer.emitted) :
           (writer.emitted[j].row_group_idx = e.row_group_idx
               /\ writer.emitted[j].column_idx = e.column_idx) => j = i

\* C19: the payload of a plain data page of a REQUIRED BOOLEAN column, as the
\* writer emits it, is the bit-packed layout the reader decodes: one byte for
\* every eight values, and bit (i mod 8) of byte (i div 8) is the i-th value.
C19_BooleanBitPacked ==
    \A i \in 1..Len(writer.emitted) :
        plain_boolean_page(i) =>
            /\ Len(emitted_payload(i)) = (Len(emitted_chunk_values(i)) + 7) \div 8
            /\ bit_packed_values([r |-> 0, v |-> emitted_payload(i)],
                                 Len(emitted_chunk_values(i))).v
                   = emitted_chunk_values(i)

\* C18: every range the read path asks of read_range lies inside the file,
\* offset + length <= file_size, the 256-byte page-header windows of the last
\* pages included: the stream of the reader never fails.
C18_ReadsInsideFile == ~reader.fail

----------------------------------------------------------------------------
(* The reader's lookups on a finished file: every public operation that     *)
(* takes a row group, a column, a name or a page id, asked both inside and  *)
(* outside the file's ranges.                                               *)

\* the files: one row group of one or two rows, or two row groups
UsageSchemas ==
    { <<ColumnSpec(<<98>>, Type_BOOLEAN, REQUIRED),
        ColumnSpec(<<115>>, Type_BYTE_ARRAY, REQUIRED)>>,
      <<ColumnSpec(<<108>>, Type_INT64, REQUIRED),
        ColumnSpec(<<115>>, Type_BYTE_ARRAY, REQUIRED)>> }

RECURSIVE WrittenFile(_, _)
WrittenFile(w, row_groups) ==
    IF row_groups = <<>> THEN destroy(w)
    ELSE WrittenFile(write_row_group(w, Head(row_groups)).w, Tail(row_groups))

UsageRowGroups(cols) ==
    {<<rg>> : rg \in RowGroups(cols, 1) \cup RowGroups(cols, 2)}
        \cup {<<rg1, rg2>> : rg1 \in RowGroups(cols, 1), rg2 \in RowGroups(cols, 1)}

\* the row-group arguments of read_column(name, row_group_idx): the indices
\* up to one past the last, 2^31 and 2^32
RowGroupArgs(rd) ==
    {SizeT(0, k) : k \in 0..Len(rd.metadata_.row_groups)} \cup {SizeT(1, 0), SizeT(2, 0)}

InitUsage ==
    /\ writer \in UNION {{WrittenFile(ParquetWriter(cols), rgs) :
                              rgs \in UsageRowGroups(cols)} : cols \in UsageSchemas}
    /\ w_alive = FALSE
    /\ w_call = NoCall
    /\ w_written = [i \in 1..Len(writer.columns_) |-> <<>>]
    /\ reader = NoReader
    /\ r_status = "none"
    /\ r_calls = 0
    /\ r_res = NoRead
    /\ iter = NoIterator
    /\ it_status = "none"
    /\ it_last = <<>>
    /\ it_yielded = <<>>
    /\ RleIdle /\ ThriftIdle /\ PitIdle /\ UnitIdle

\* reader.read_column(name, row_group_idx)
ReadColumnInRowGroup ==
    /\ r_status = "ok"
    /\ r_calls < MaxCalls
    /\ r_calls' = r_calls + 1
    /\ \E row_group_idx \in RowGroupArgs(reader), name \in ColumnNames :
          LET returned(x) ==
                  /\ r_res' = [NoRead EXCEPT !.op = "read_column_in_row_group",
                                             !.name = name,
                                             !.row_group_arg = row_group_idx,
                                             !.status = x.status, !.values = x.values]
                  /\ reader' = [reader EXCEPT !.fail = x.fail]
          IN  returned(read_column_in_row_group(reader, writer.file, name, row_group_idx))
    /\ UNCHANGED <<writerVars, r_status, iterVars, rleVars, thriftVars, pitVars, unitVars>>

\* reader.column(col_idx)
Column ==
    /\ r_status = "ok"
    /\ r_calls < MaxCalls
    /\ r_calls' = r_calls + 1
    /\ \E col_idx \in 0..Len(reader.columns_) :
          LET returned(x) ==
                  r_res' = [NoRead EXCEPT !.op = "column", !.col_idx = col_idx,
                                          !.status = x.status, !.values = x.column]
          IN  returned(column_at(reader, col_idx))
    /\ UNCHANGED <<writerVars, reader, r_status, iterVars,
                   rleVars, thriftVars, pitVars, unitVars>>

\* reader.column(name)
ColumnByName ==
    /\ r_status = "ok"
    /\ r_calls < MaxCalls
    /\ r_calls' = r_calls + 1
    /\ \E name \in ColumnNames :
          LET returned(x) ==
                  r_res' = [NoRead EXCEPT !.op = "column_named", !.name = name,
                                          !.status = x.status, !.values = x.column]
          IN  returned(column_named(reader, name))
    /\ UNCHANGED <<writerVars, reader, r_status, iterVars,
                   rleVars, thriftVars, pitVars, unitVars>>

\* reader.read_page_data(global_page_id)
ReadPageData ==
    /\ r_status = "ok"
    /\ r_calls < MaxCalls
    /\ r_calls' = r_calls + 1
    /\ \E global_page_id \in 0..(Len(reader.page_index_) + 1) :
          LET returned(x) ==
                  /\ r_res' = [NoRead EXCEPT !.op = "read_page_data",
                                             !.page_id = global_page_id,
                                             !.status = x.status, !.values = x.data]
                  /\ reader' = [reader EXCEPT !.fail = x.fail]
          IN  returned(read_page_data(reader, writer.file, global_page_id))
    /\ UNCHANGED <<writerVars, r_status, iterVars, rleVars, thriftVars, pitVars, unitVars>>

\* reader.page_index_entry(global_page_id)
PageIndexEntry ==
    /\ r_status = "ok"
    /\ r_calls < MaxCalls
    /\ r_calls' = r_calls + 1
    /\ \E global_page_id \in 0..(Len(reader.page_index_) + 1) :
          LET returned(x) ==
                  r_res' = [NoRead EXCEPT !.op = "page_index_entry",
                                          !.page_id = global_page_id,
                                          !.status = x.status, !.values = x.entry]
          IN  returned(page_index_entry(reader, global_page_id))
    /\ UNCHANGED <<writerVars, reader, r_status, iterVars,
                   rleVars, thriftVars, pitVars, unitVars>>

NextUsage ==
    \/ Open
    \/ ReadColumnInRowGroup
    \/ ReadColumnByIdx
    \/ Column
    \/ ColumnByName
    \/ ColumnIterator
    \/ ReadPageData
    \/ PageIndexEntry

SpecUsage == InitUsage /\ [][NextUsage]_vars

\* C14: a read given a row group at or past the number of row groups, a
\* column at or past the number of columns, a name that is no column, or a
\* page id at or past the number of pages raises an error and returns no
\* data, whatever the value of read_column's size_t row-group argument.
C14_OutOfRangeRaises ==
    LET raised == r_res.status = "throw" /\ r_res.values = <<>>
        num_row_groups == Len(reader.metadata_.row_groups)
        unknown == find_column(reader, r_res.name) < 0
    IN  /\ (/\ r_res.op = "read_column_in_row_group"
            /\ \/ r_res.row_group_arg.hi > 0
               \/ r_res.row_group_arg.lo >= num_row_groups
               \/ unknown)
           => raised
        /\ (/\ r_res.op = "read_column_by_idx"
            /\ \/ r_res.row_group_idx >= num_row_groups
               \/ r_res.col_idx >= Len(reader.columns_))
           => raised
        /\ (r_res.op = "column" /\ r_res.col_idx >= Len(reader.columns_)) => raised
        /\ (r_res.op = "column_named" /\ unknown) => raised
        /\ (/\ r_res.op \in {"read_page_data", "page_index_entry"}
            /\ r_res.page_id >= Len(reader.page_index_))
           => raised
        /\ r_status = "ok" =>
               \A name \in ColumnNames :
                   find_column(reader, name) < 0
                       => column_iterator(reader, writer.file, name).status = "throw"

----------------------------------------------------------------------------
(* Files whose descriptor names a compression codec: the pages are those    *)
(* the writer emits, the descriptor is the writer's with the codec of some  *)
(* columns replaced, as another producer would write it.                    *)

\* the descriptor calls with the codec field of each chunk (columns within
\* row groups) set to codecs[column]
is_codec_call(c) == c.call = "write_i32" /\ c.args[1] = 4

with_codecs(calls, codecs) ==
    [i \in 1..Len(calls) |->
        IF is_codec_call(calls[i])
        THEN W("write_i32",
               <<4, codecs[(Cardinality({j \in 1..(i - 1) : is_codec_call(calls[j])})
                               % Len(codecs)) + 1]>>)
        ELSE calls[i]]

RECURSIVE WrittenPages(_, _)
WrittenPages(w, row_groups) ==
    IF row_groups = <<>> THEN w
    ELSE WrittenPages(write_row_group(w, Head(row_groups)).w, Tail(row_groups))

CodecFile(w, codecs) ==
    [w EXCEPT !.closed_ = TRUE,
              !.file = with_footer(@, thrift_bytes(with_codecs(footer_calls(w), codecs)))]

\* one row group of one row, or two of them
CodecRowGroups(cols) ==
    {<<rg>> : rg \in RowGroups(cols, 1)}
        \cup {<<rg1, rg2>> : rg1 \in RowGroups(cols, 1), rg2 \in RowGroups(cols, 1)}

\* the codec of each of the two columns
Codecs == {<<UNCOMPRESSED, UNCOMPRESSED>>, <<UNCOMPRESSED, SNAPPY>>, <<SNAPPY, UNCOMPRESSED>>}

InitCodec ==
    /\ writer \in UNION {{CodecFile(WrittenPages(ParquetWriter(cols), rgs), codecs) :
                              rgs \in CodecRowGroups(cols), codecs \in Codecs} :
                         cols \in UsageSchemas}
    /\ w_alive = FALSE
    /\ w_call = NoCall
    /\ w_written = [i \in 1..Len(writer.columns_) |-> <<>>]
    /\ reader = NoReader
    /\ r_status = "none"
    /\ r_calls = 0
    /\ r_res = NoRead
    /\ iter = NoIterator
    /\ it_status = "none"
    /\ it_last = <<>>
    /\ it_yielded = <<>>
    /\ RleIdle /\ ThriftIdle /\ PitIdle /\ UnitIdle

NextCodec ==
    \/ Open
    \/ ColumnIterator
    \/ ItNext
    \/ ReadColumn
    \/ ReadColumnByIdx

SpecCodec == InitCodec /\ [][NextCodec]_vars

\* the codec of the chunk of leaf column col_idx in row group rg (from 0)
chunk_codec(rd, rg, col_idx) ==
    rd.metadata_.row_groups[rg + 1]
        .columns[rd.columns_[col_idx + 1].column_index + 1].meta_data[1].codec

\* C15: no value is decoded from a chunk whose codec is not UNCOMPRESSED:
\* read_column and read_column_by_idx on such a chunk raise an error and
\* return nothing, and a string iterator over such a column yields no string.
C15_NoValueFromCompressed ==
    LET raised == r_res.status = "throw" /\ r_res.values = <<>>
        num_row_groups == Len(reader.metadata_.row_groups)
    IN  /\ (/\ r_res.op = "read_column_by_idx"
            /\ r_res.row_group_idx < num_row_groups
            /\ r_res.col_idx < Len(reader.columns_)
            /\ chunk_codec(reader, r_res.row_group_idx, r_res.col_idx) # UNCOMPRESSED)
           => raised
        /\ (/\ r_res.op = "read_column"
            /\ find_column(reader, r_res.name) >= 0
            /\ \E rg \in 0..(num_row_groups - 1) :
                  chunk_codec(reader, rg, find_column(reader, r_res.name)) # UNCOMPRESSED)
           => raised
        /\ (/\ it_status # "none"
            /\ \E rg \in 0..(num_row_groups - 1) :
                  chunk_codec(reader, rg, iter.col_idx_) # UNCOMPRESSED)
           => it_yielded = <<>>

----------------------------------------------------------------------------
(* skip on its own.  A struct of three fields is laid out with the writer's *)
(* primitives: a boolean, a field holding a value of some tag, nested up to *)
(* MaxSkipDepth deep, and an i32.  The reader walks it as a deserialiser    *)
(* does an unknown field: read_field_begin, then skip of the header's type. *)
(* A boolean has no payload: read_bool takes it from the type it is given,  *)
(* so the elements of a list of booleans occupy no byte.                    *)

MaxSkipDepth == 3

\* a value: its tag, its field id when it is a field of a struct, and its
\* content: n (i8, i16, i32, i64), bytes (double, binary), elem and elems
\* (list and set: the element tag, the elements; map: the key and value
\* tags, keys and values in turn; struct: the fields)
SkipValue(tag, n, bytes, elem, elems) ==
    [tag |-> tag, id |-> 0, n |-> n, bytes |-> bytes, elem |-> elem, elems |-> elems]

Field(id, v) == [v EXCEPT !.id = id]

BoolValue(b) == SkipValue(IF b THEN CT_BOOLEAN_TRUE ELSE CT_BOOLEAN_FALSE, 0, <<>>, <<>>, <<>>)
IntValue(tag, n) == SkipValue(tag, n, <<>>, <<>>, <<>>)
BytesValue(tag, bytes) == SkipValue(tag, 0, bytes, <<>>, <<>>)
ListValue(tag, elem, elems) == SkipValue(tag, 0, <<>>, <<elem>>, elems)
MapValue(kt, vt, elems) == SkipValue(CT_MAP, 0, <<>>, <<kt, vt>>, elems)
StructValue(fields) == SkipValue(CT_STRUCT, 0, <<>>, <<>>, fields)

SkipLeaves ==
    { BoolValue(TRUE), BoolValue(FALSE), IntValue(CT_I8, 200), IntValue(CT_I16, -300),
      IntValue(CT_I32, 5), IntValue(CT_I64, 100000),
      BytesValue(CT_DOUBLE, <<0, 0, 0, 0, 0, 0, 240, 63>>),
      BytesValue(CT_BINARY, <<>>), BytesValue(CT_BINARY, <<104, 105>>) }

\* lists and sets of no, one and two elements, lists of 15 (the count in its
\* long form), maps of no, one and two pairs, structs of no, one and two fields
Composites(X) ==
    UNION {
        {ListValue(tag, x.tag, elems) :
            tag \in {CT_LIST, CT_SET}, elems \in {<<>>, <<x>>, <<x, x>>}}
        \cup (IF x \in {BoolValue(TRUE), IntValue(CT_I8, 200)}
              THEN {ListValue(CT_LIST, x.tag, [i \in 1..15 |-> x])} ELSE {})
        \cup UNION {{MapValue(k.tag, x.tag, elems) :
                        elems \in {<<>>, <<k, x>>, <<k, x, k, x>>}} :
                    k \in {IntValue(CT_I32, 5), BytesValue(CT_BINARY, <<104, 105>>),
                           BoolValue(TRUE)}}
        \cup {StructValue(fields) :
                 fields \in {<<>>, <<Field(1, x)>>,
                             <<Field(3, x), Field(20, BoolValue(FALSE))>>}} :
        x \in X}

\* one more level around a value
Nested(X) ==
    {ListValue(CT_LIST, x.tag, <<x>>) : x \in X}
    \cup {MapValue(CT_I32, x.tag, <<IntValue(CT_I32, 5), x>>) : x \in X}
    \cup {StructValue(<<Field(3, x), Field(4, IntValue(CT_I32, 5))>>) : x \in X}

\* the values nested further are those around a binary: two, three and four
\* levels deep
Nested2 == Nested(Composites({BytesValue(CT_BINARY, <<104, 105>>)}))
Nested3 == Nested(Nested2)
Nested4 == Nested(Nested3)

SkipValues ==
    SkipLeaves \cup Composites(SkipLeaves)
        \cup (IF MaxSkipDepth >= 2 THEN Nested2 ELSE {})
        \cup (IF MaxSkipDepth >= 3 THEN Nested3 ELSE {})
        \cup (IF MaxSkipDepth >= 4 THEN Nested4 ELSE {})

\* the three fields, the second with a short or a long header
SkipInputs ==
    {<<Field(1, BoolValue(TRUE)), Field(id, v), Field(id + 1, IntValue(CT_I32, 7))>> :
        id \in {2, 300}, v \in SkipValues}

\* the bytes of a value and of the fields of a struct, as the writer lays
\* them out
RECURSIVE put_value(_, _)
RECURSIVE put_elems(_, _)
RECURSIVE put_fields(_, _)
put_value(tw, v) ==
    LET count == Len(v.elems)
        list_header == IF count < 15 THEN write_byte(tw, count * 16 + v.elem[1])
                       ELSE write_varint(write_byte(tw, 240 + v.elem[1]), count)
        map_header == IF count = 0 THEN write_varint(tw, 0)
                      ELSE write_byte(write_varint(tw, count \div 2),
                                      v.elem[1] * 16 + v.elem[2])
    IN  IF v.tag \in {CT_BOOLEAN_TRUE, CT_BOOLEAN_FALSE} THEN tw
        ELSE IF v.tag = CT_I8 THEN write_byte(tw, v.n)
        ELSE IF v.tag \in {CT_I16, CT_I32, CT_I64} THEN write_zigzag(tw, v.n)
        ELSE IF v.tag = CT_DOUBLE THEN write_raw_bytes(tw, v.bytes)
        ELSE IF v.tag = CT_BINARY
        THEN write_raw_bytes(write_varint(tw, Len(v.bytes)), v.bytes)
        ELSE IF v.tag \in {CT_LIST, CT_SET} THEN put_elems(list_header, v.elems)
        ELSE IF v.tag = CT_MAP THEN put_elems(map_header, v.elems)
        ELSE pop_field_state(write_stop(put_fields(push_field_state(tw), v.elems)))

put_elems(tw, elems) ==
    IF elems = <<>> THEN tw ELSE put_elems(put_value(tw, Head(elems)), Tail(elems))

put_fields(tw, fields) ==
    IF fields = <<>> THEN tw
    ELSE put_fields(put_value(write_field(tw, Head(fields).id, Head(fields).tag),
                              Head(fields)),
                    Tail(fields))

InitSkip ==
    /\ th_op \in {[op |-> "skip", fields |-> fields] : fields \in SkipInputs}
    /\ th_w = write_stop(put_fields(ThriftWriter, th_op.fields))
    /\ th_r = ThriftReader
    /\ th_got = [n |-> 0, field_id |-> 0, type |-> CT_STOP]
    /\ th_pc = "header"
    /\ RleIdle /\ FileIdle /\ PitIdle /\ UnitIdle

\* auto fh = reader.read_field_begin()
SkipFieldBegin ==
    /\ th_pc = "header"
    /\ LET returned(fh) ==
               /\ th_r' = fh.r
               /\ th_got' = [n |-> th_got.n + 1, field_id |-> fh.field_id, type |-> fh.type]
               /\ th_pc' = IF fh.type = CT_STOP THEN "done" ELSE "value"
       IN  returned(read_field_begin(th_w.buf, th_r))
    /\ UNCHANGED <<th_w, th_op, rleVars, fileVars, pitVars, unitVars>>

\* default: reader.skip(fh.type)
SkipField ==
    /\ th_pc = "value"
    /\ th_r' = skip(th_w.buf, th_r, th_got.type)
    /\ th_pc' = "header"
    /\ UNCHANGED <<th_w, th_op, th_got, rleVars, fileVars, pitVars, unitVars>>

NextSkip == SkipFieldBegin \/ SkipField

SpecSkip == InitSkip /\ [][NextSkip]_vars

\* the position after the first k fields
FieldEnd(fields, k) == Len(put_fields(ThriftWriter, SubSeq(fields, 1, k)).buf)

\* C16: skip(tag) advances the position by exactly the encoded length of the
\* value, whatever its tag and nesting: the read_field_begin that follows
\* returns the header of the next field with its field id, and after the skip
\* (of a nested struct too) the previous-field-id counter and its stack are
\* what they were before it.
C16_SkipExact ==
    LET fields == th_op.fields
        k == th_got.n
    IN  /\ th_r.ok
        /\ th_pc = "value" =>
              /\ k <= Len(fields)
              /\ th_got.field_id = fields[k].id
              /\ th_got.type = fields[k].tag
        /\ (th_pc = "header" /\ k > 0) =>
              /\ th_r.pos = FieldEnd(fields, k)
              /\ th_r.last_field_id = fields[k].id
              /\ th_r.field_id_stack = <<>>
        /\ th_pc = "done" =>
              /\ k = Len(fields) + 1
              /\ th_r.pos = Len(th_w.buf)

\* a struct holding a map whose value is a list has been skipped under a
\* long field header, and the header of the field after it has been read
C16_Witness ==
    /\ th_pc = "value"
    /\ th_got.n = 3
    /\ th_got.field_id = 301
    /\ th_got.type = CT_I32
    /\ th_op.fields[2].tag = CT_STRUCT
    /\ Len(th_op.fields[2].elems) = 2
    /\ th_op.fields[2].elems[1].tag = CT_MAP
    /\ Len(th_op.fields[2].elems[1].elems) = 2
    /\ th_op.fields[2].elems[1].elems[2].tag = CT_LIST
    /\ Len(th_op.fields[2].elems[1].elems[2].elems) = 2

----------------------------------------------------------------------------
(* A PageIterator over a range of the page index of an open file: next() as *)
(* often as the caller likes, past the end too, and one reset().            *)

\* the files: a BOOLEAN and a BYTE_ARRAY column, one or two row groups
PageFiles ==
    UNION {{WrittenFile(ParquetWriter(cols), rgs) : rgs \in CodecRowGroups(cols)} :
           cols \in {<<ColumnSpec(<<98>>, Type_BOOLEAN, REQUIRED),
                       ColumnSpec(<<115>>, Type_BYTE_ARRAY, REQUIRED)>>}}

InitPages ==
    /\ writer \in PageFiles
    /\ w_alive = FALSE
    /\ w_call = NoCall
    /\ w_written = [i \in 1..Len(writer.columns_) |-> <<>>]
    /\ reader = NoReader
    /\ r_status = "none"
    /\ r_calls = 0
    /\ r_res = NoRead
    /\ iter = NoIterator
    /\ it_status = "none"
    /\ it_last = <<>>
    /\ it_yielded = <<>>
    /\ RleIdle /\ ThriftIdle /\ PitIdle /\ UnitIdle

\* reader.page_iterator(): the iterator is "live" once constructed
PageIteratorAll ==
    /\ r_status = "ok"
    /\ pit_status = "none"
    /\ LET returned(x) ==
               /\ pit' = x.pit
               /\ pit_status' = IF x.status = "throw" THEN "throw" ELSE "live"
       IN  returned(page_iterator_all(reader))
    /\ UNCHANGED <<pit_last, pit_ids, writerVars, readerVars, iterVars,
                   rleVars, thriftVars, unitVars>>

\* reader.page_iterator(start_page_id, end_page_id)
PageIteratorRange ==
    /\ r_status = "ok"
    /\ pit_status = "none"
    /\ \E start_page_id \in 0..(Len(reader.page_index_) + 1),
          end_page_id \in 0..(Len(reader.page_index_) + 1) :
          LET returned(x) ==
                  /\ pit' = x.pit
                  /\ pit_status' = IF x.status = "throw" THEN "throw" ELSE "live"
          IN  returned(page_iterator(reader, start_page_id, end_page_id))
    /\ UNCHANGED <<pit_last, pit_ids, writerVars, readerVars, iterVars,
                   rleVars, thriftVars, unitVars>>

\* it.has_next() and it.next(): pit_last is the call, pit_ids the ids of the
\* pages returned since the construction or the reset
PageNext ==
    /\ pit_status \in {"live", "again"}
    /\ LET returned(x) ==
               /\ pit' = x.pit
               /\ pit_last' = <<[status |-> x.status, had_next |-> page_has_next(pit),
                                 cursor |-> pit.current_, page |-> x.page]>>
               /\ pit_ids' = IF x.status = "ok" THEN Append(pit_ids, x.page[1].page_id)
                             ELSE pit_ids
               /\ reader' = [reader EXCEPT !.fail = x.fail]
       IN  returned(page_next(pit, reader, writer.file))
    /\ UNCHANGED <<pit_status, writerVars, r_status, r_calls, r_res, iterVars,
                   rleVars, thriftVars, unitVars>>

\* it.reset(), once
PageReset ==
    /\ pit_status = "live"
    /\ pit' = page_reset(pit)
    /\ pit_status' = "again"
    /\ pit_last' = <<>>
    /\ pit_ids' = <<>>
    /\ UNCHANGED <<writerVars, readerVars, iterVars, rleVars, thriftVars, unitVars>>

NextPages ==
    \/ Open
    \/ PageIteratorAll
    \/ PageIteratorRange
    \/ PageNext
    \/ PageReset

SpecPages == InitPages /\ [][NextPages]_vars

\* C17: over [start, end) the calls of next() return the pages start,
\* start + 1, ... in that order, each once, with the row group and column of
\* their page index entry; has_next() is true exactly when the cursor is
\* below end; next() without a next page raises and leaves the cursor where
\* it was; after reset() the cursor is at start and the same pages come
\* again; start <= cursor <= end throughout.
C17_PageIteratorWalk ==
    LET entry(id) == reader.page_index_[id + 1]
        last == pit_last[1]
    IN  pit_status \in {"live", "again"} =>
           /\ pit.start_ <= pit.current_
           /\ pit.current_ <= pit.end_
           /\ pit.end_ <= Len(reader.page_index_)
           /\ pit_ids = [i \in 1..(pit.current_ - pit.start_) |-> pit.start_ + i - 1]
           /\ pit_last # <<>> =>
                 /\ last.had_next <=> last.cursor < pit.end_
                 /\ last.status = "ok" <=> last.had_next
                 /\ last.status = "ok" =>
                       /\ pit.current_ = last.cursor + 1
                       /\ last.page[1].page_id = last.cursor
                       /\ last.page[1].row_group_idx = entry(last.cursor).row_group_idx
                       /\ last.page[1].column_idx = entry(last.cursor).column_idx
                 /\ last.status = "throw" =>
                       /\ pit.current_ = last.cursor
                       /\ last.page = <<>>
           /\ (pit_status = "again" /\ pit_last = <<>>) => pit.current_ = pit.start_

\* after a reset, the second and third of four pages have come again and a
\* further next() has raised
C17_Witness ==
    /\ pit_status = "again"
    /\ pit.start_ = 1
    /\ pit.end_ = 3
    /\ Len(reader.page_index_) = 4
    /\ pit_ids = <<1, 2>>
    /\ pit_last # <<>>
    /\ pit_last[1].status = "throw"

----------------------------------------------------------------------------
(* Several readers on one open file.  A StringColumnIterator, a             *)
(* PageIterator and read_column calls obtained from the same ParquetReader  *)
(* share its stream and nothing else; their public calls are taken one at a *)
(* time, in any order.                                                      *)

\* the files: a REQUIRED BOOLEAN and a REQUIRED BYTE_ARRAY column in one row
\* group of one or two rows or in two row groups of one row, or one OPTIONAL
\* BYTE_ARRAY column in a row group of two rows
SharedFiles ==
    {WrittenFile(ParquetWriter(<<ColumnSpec(<<98>>, Type_BOOLEAN, REQUIRED),
                                 ColumnSpec(<<115>>, Type_BYTE_ARRAY, REQUIRED)>>), rgs) :
        rgs \in CodecRowGroups(<<ColumnSpec(<<98>>, Type_BOOLEAN, REQUIRED),
                                  ColumnSpec(<<115>>, Type_BYTE_ARRAY, REQUIRED)>>)}
    \cup
    UNION {{WrittenFile(ParquetWriter(cols), <<rg>>) : rg \in RowGroups(cols, 2)} :
           cols \in {<<ColumnSpec(<<98>>, Type_BOOLEAN, REQUIRED),
                       ColumnSpec(<<115>>, Type_BYTE_ARRAY, REQUIRED)>>,
                     <<ColumnSpec(<<115>>, Type_BYTE_ARRAY, OPTIONAL)>>}}

InitShared ==
    /\ writer \in SharedFiles
    /\ w_alive = FALSE
    /\ w_call = NoCall
    /\ w_written = [i \in 1..Len(writer.columns_) |-> <<>>]
    /\ reader = NoReader
    /\ r_status = "none"
    /\ r_calls = 0
    /\ r_res = NoRead
    /\ iter = NoIterator
    /\ it_status = "none"
    /\ it_last = <<>>
    /\ it_yielded = <<>>
    /\ RleIdle /\ ThriftIdle /\ PitIdle /\ UnitIdle

NextShared ==
    \/ Open
    \/ ReadColumn
    \/ ColumnIterator
    \/ ItNext
    \/ PageIteratorAll
    \/ PageNext

SpecShared == InitShared /\ [][NextShared]_vars

\* the reader as open() left it, before any reader was obtained from it
reader_opened == (CHOOSE o \in open(writer.file) : o.status = r_status).rd

\* a StringColumnIterator that runs alone: the iterator after k more calls of
\* next(), [status, it, fail, yielded]
RECURSIVE iterator_alone(_, _, _, _)
iterator_alone(x, rd, file, k) ==
    LET called(n) ==
            iterator_alone([status |-> n.status, it |-> n.it, fail |-> n.fail,
                            yielded |-> IF n.status = "throw" THEN x.yielded
                                        ELSE Append(x.yielded, n.result[1].bytes)],
                           rd, file, k - 1)
    IN  IF k = 0 \/ x.status = "throw" THEN x
        ELSE called(next(x.it, rd, file, x.fail))

\* column_iterator(name) and k calls of next() on a reader nobody else uses
column_iterator_alone(rd, file, name, k) ==
    LET constructed(c) ==
            iterator_alone([status |-> c.status, it |-> c.it, fail |-> c.fail,
                            yielded |-> <<>>], rd, file, k)
    IN  constructed(column_iterator(rd, file, name))

\* C20: interleaved in any order, one public call at a time, the calls on a
\* StringColumnIterator, on a PageIterator and of read_column on the same
\* reader give what each of them gives when it runs alone on the reader as
\* open() left it: the same strings and iterator, the same pages, the same
\* column values.
C20_SameAsAlone ==
    r_status = "ok" =>
        /\ r_res.op = "read_column" =>
               LET same(a) == /\ a.status = r_res.status
                              /\ a.values = r_res.values
               IN  same(read_column(reader_opened, writer.file, r_res.name))
        /\ it_status = "live" =>
               LET same(a) == /\ a.status # "throw"
                              /\ a.it = iter
                              /\ a.yielded = it_yielded
               IN  same(column_iterator_alone(reader_opened, writer.file,
                                              reader.columns_[iter.col_idx_ + 1].name,
                                              Len(it_yielded)))
        /\ (pit_status = "live" /\ pit_last # <<>>) =>
               LET same(a) == /\ a.status = pit_last[1].status
                              /\ a.page = pit_last[1].page
                              /\ pit_last[1].status = "ok" => a.pit = pit
               IN  same(page_next([pit EXCEPT !.current_ = pit_last[1].cursor],
                                  reader_opened, writer.file))

\* the three readers in the middle of their work on a file of two row groups:
\* the iterator has yielded its two strings and the page iterator three of the
\* four pages, and read_column has returned the string column
C20_Witness ==
    /\ it_status = "live"
    /\ it_yielded = <<<<>>, BIG>>
    /\ pit_status = "live"
    /\ pit_ids = <<0, 1, 2>>
    /\ r_res.op = "read_column"
    /\ r_res.name = <<115>>
    /\ r_res.status = "ok"
    /\ Len(r_res.values) = 2

----------------------------------------------------------------------------
(* The writer's analysis of one column on its own: analyze_column (the      *)
(* choice between dictionary and plain encoding) and                        *)
(* compute_page_boundaries (the split of a plain column into pages).        *)

\* the longest short column, and the length of the columns of two values
MaxColumnLen == 6
TwoValueLens == {9, 10}
\* the longest column of strings
MaxStrings == 4
\* the number of rows of the long INT64 column: one more than fill a page
LongRows == 129

\* strings whose estimates are 4, 512, 1023 and 1024
PageStrings == {<<>>, [i \in 1..508 |-> 66], [i \in 1..1019 |-> 67], BIG}

ColumnInput(type, values) == [type |-> type, values |-> values]

ShortColumns ==
    UNION {{ColumnInput(Type_INT32, v) :
               v \in [1..n -> {ValueOf(7), ValueOf(8), NullValue(Type_INT32)}]} :
           n \in 0..MaxColumnLen}

TwoValueColumns ==
    UNION {{ColumnInput(Type_INT32, v) : v \in [1..n -> {ValueOf(7), ValueOf(8)}]} :
           n \in TwoValueLens}

StringColumns ==
    UNION {{ColumnInput(Type_BYTE_ARRAY, v) :
               v \in [1..n -> {ValueOf(x) : x \in PageStrings}
                                  \cup {NullValue(Type_BYTE_ARRAY)}]} :
           n \in 0..MaxStrings}

LongColumns == {ColumnInput(Type_INT64, [i \in 1..LongRows |-> ValueOf(5)])}

NoColumnResult == [op |-> "none", dict |-> <<>>, pages |-> <<>>]

InitColumn ==
    /\ \/ col_in \in ShortColumns
       \/ col_in \in TwoValueColumns
       \/ col_in \in StringColumns
       \/ col_in \in LongColumns
    /\ col_out = NoColumnResult
    /\ sch_in = <<>>
    /\ dp_in = <<>>
    /\ dp_out = <<>>
    /\ RleIdle /\ ThriftIdle /\ FileIdle /\ PitIdle

\* analyze_column(values)
AnalyzeColumn ==
    /\ col_in # <<>>
    /\ col_out.op = "none"
    /\ col_out' = [NoColumnResult EXCEPT !.op = "analyze_column",
                                         !.dict = <<analyze_column(col_in.values)>>]
    /\ UNCHANGED <<col_in, sch_in, dp_in, dp_out, rleVars, thriftVars, fileVars, pitVars>>

\* compute_page_boundaries(values, type)
ComputePageBoundaries ==
    /\ col_in # <<>>
    /\ col_out.op = "none"
    /\ col_out' = [NoColumnResult EXCEPT
                       !.op = "compute_page_boundaries",
                       !.pages = compute_page_boundaries(col_in.values, col_in.type)]
    /\ UNCHANGED <<col_in, sch_in, dp_in, dp_out, rleVars, thriftVars, fileVars, pitVars>>

NextColumn == AnalyzeColumn \/ ComputePageBoundaries

SpecColumn == InitColumn /\ [][NextColumn]_vars

\* the rows of the column that hold a value, and the row where a value is first
NonNullRows(values) == {i \in 1..Len(values) : ~values[i].is_null}
FirstRow(values, data) ==
    CHOOSE i \in NonNullRows(values) :
        /\ values[i].data = data
        /\ \A j \in NonNullRows(values) : values[j].data = data => i <= j

\* C21: analyze_column selects the dictionary exactly when the column has a
\* non-null value and the number of distinct non-null values is at most
\* floor(non-null count / 5), and plain otherwise (an all-null and an empty
\* column included); the dictionary then lists each distinct non-null value
\* once, in the order of first occurrence, so every non-null value has an id.
C21_EncodingChoice ==
    col_out.op = "analyze_column" =>
        LET values == col_in.values
            rows == NonNullRows(values)
            distinct == {values[i].data : i \in rows}
            dict == col_out.dict[1]
            ids == 1..Len(dict.dict_values)
        IN  /\ dict.use_dictionary <=>
                   (rows # {} /\ Cardinality(distinct) <= Cardinality(rows) \div 5)
            /\ dict.use_dictionary =>
                   /\ Len(dict.dict_values) = Cardinality(distinct)
                   /\ \A i \in rows : \E id \in ids : dict.dict_values[id].data = values[i].data
                   /\ \A a, b \in ids :
                          a < b => FirstRow(values, dict.dict_values[a].data)
                                      < FirstRow(values, dict.dict_values[b].data)

\* ten values, two of them distinct: the dictionary, 8 before 7
C21_Witness ==
    /\ col_out.op = "analyze_column"
    /\ Len(col_in.values) = 10
    /\ col_out.dict[1].use_dictionary
    /\ col_out.dict[1].dict_values = <<ValueOf(8), ValueOf(7)>>

\* the estimate of a row as the splitting rule states it
RowEstimate(v, type) ==
    IF v.is_null THEN 0
    ELSE IF type = Type_BOOLEAN THEN 1
    ELSE IF type = Type_INT32 THEN 4
    ELSE IF type = Type_INT64 THEN 8
    ELSE 4 + Len(v.data)

\* the estimate accumulated over the rows first..last (1-based), summed by
\* halves
RECURSIVE PageEstimate(_, _, _, _)
PageEstimate(values, type, first, last) ==
    IF first > last THEN 0
    ELSE IF first = last THEN RowEstimate(values[first], type)
    ELSE PageEstimate(values, type, first, (first + last) \div 2)
         + PageEstimate(values, type, (first + last) \div 2 + 1, last)

----------------------------------------------------------------------------
(* The layout of the column chunks the writer records *)

\* the chunks recorded so far, in file order: the columns of each row group
NumChunks == Len(writer.row_groups_) * Len(writer.columns_)
ChunkMeta(k) ==
    writer.row_groups_[((k - 1) \div Len(writer.columns_)) + 1]
        .columns[((k - 1) % Len(writer.columns_)) + 1]

HasDictionary(cm) == cm.dictionary_page_offset # -1
ChunkBegin(cm) ==
    IF HasDictionary(cm) /\ cm.dictionary_page_offset < cm.data_page_offset
    THEN cm.dictionary_page_offset ELSE cm.data_page_offset

\* the pages that lie in the file from pos on and before end, as their
\* headers tell: [type, pos, next]
RECURSIVE PagesFrom(_, _, _)
PagesFrom(file, pos, end) ==
    LET page(h) ==
            IF ~h.ok THEN <<[type |-> -1, pos |-> pos, next |-> end]>>
            ELSE <<[type |-> h.hdr.type, pos |-> pos,
                    next |-> pos + h.header_size + h.hdr.compressed_page_size]>>
                 \o PagesFrom(file, pos + h.header_size + h.hdr.compressed_page_size, end)
    IN  IF pos >= end THEN <<>> ELSE page(read_page_header(file, FALSE, pos))

\* C23: every chunk the writer records begins at min(data_page_offset,
\* dictionary_page_offset), right where the chunk before it ends (the first
\* one after the magic), and total_compressed_size is the number of bytes of
\* its pages, headers included; the dictionary page, if there is one, is the
\* first page and the only one of its kind, and data_page_offset is the
\* position right after it; without one data_page_offset is the chunk start.
C23_ChunkLayout ==
    \A k \in 1..NumChunks :
        LET cm == ChunkMeta(k)
            tiled(pages) ==
                /\ pages # <<>>
                /\ pages[Len(pages)].next = ChunkBegin(cm) + cm.total_compressed_size
                /\ IF HasDictionary(cm)
                   THEN /\ cm.dictionary_page_offset = ChunkBegin(cm)
                        /\ Len(pages) >= 2
                        /\ pages[1].type = DICTIONARY_PAGE
                        /\ cm.data_page_offset = pages[2].pos
                        /\ \A i \in 2..Len(pages) : pages[i].type = DATA_PAGE
                   ELSE /\ cm.data_page_offset = ChunkBegin(cm)
                        /\ \A i \in 1..Len(pages) : pages[i].type = DATA_PAGE
        IN  /\ ChunkBegin(cm) = IF k = 1 THEN 4
                                ELSE ChunkBegin(ChunkMeta(k - 1))
                                        + ChunkMeta(k - 1).total_compressed_size
            /\ ChunkBegin(cm) + cm.total_compressed_size <= Len(writer.file)
            /\ (k = NumChunks /\ ~writer.closed_) =>
                   ChunkBegin(cm) + cm.total_compressed_size = Len(writer.file)
            /\ tiled(PagesFrom(writer.file, ChunkBegin(cm),
                               ChunkBegin(cm) + cm.total_compressed_size))

\* a dictionary chunk that another chunk follows, in a finished file
C23_Witness ==
    /\ writer.closed_
    /\ NumChunks >= 4
    /\ HasDictionary(ChunkMeta(1))
    /\ ChunkMeta(1).data_page_offset > ChunkMeta(1).dictionary_page_offset
    /\ ~HasDictionary(ChunkMeta(3))

----------------------------------------------------------------------------
(* The decoder on a stream that ends too early: the bytes of the encoder    *)
(* lose their last bytes, one at a time, before they are decoded asking for *)
(* as many values as were written.                                          *)

\* the stream loses its last byte
RleCut ==
    /\ rle_pc = "finished"
    /\ rle_bytes # <<>>
    /\ rle_bytes' = SubSeq(rle_bytes, 1, Len(rle_bytes) - 1)
    /\ UNCHANGED <<rle_pc, rle_xs, rle_enc, rle_out, thriftVars, fileVars, pitVars, unitVars>>

NextRleCut == RleWriteValue \/ RleFinishWrite \/ RleCut \/ RleGetBatch

SpecRleCut == InitRle /\ [][NextRleCut]_vars

\* C25: a decode that completes has found every value it was asked for in
\* the stream: when the stream ends between two runs or inside a run before
\* the count is reached, get_batch does not complete with values of its own.
C25_ExhaustedFails ==
    rle_pc = "decoded" => ~rle_out.short /\ ~rle_out.d.oob

----------------------------------------------------------------------------
(* read_data_page on a plain INT32 page whose definition levels are any     *)
(* stream of one or two runs: repeated runs of one to three levels whose    *)
(* value byte is 0..3, and bit-packed groups.                               *)

MaxLevelValues == 3

LevelRuns ==
    {<<2 * n, v>> : n \in 1..3, v \in 0..3} \cup {<<3, b>> : b \in {0, 5, 255}}

LevelStreams == LevelRuns \cup {a \o b : a \in LevelRuns, b \in LevelRuns}

LevelPages ==
    {[stream |-> st, num_values |-> n, max_def_level |-> m] :
        st \in LevelStreams, n \in 1..MaxLevelValues, m \in {1, 2}}

\* the payload of the page: the length-prefixed levels, then num_values values
LevelPayload(page) ==
    length_prefixed(page.stream)
        \o plain_encode_values([i \in 1..page.num_values |-> ValueOf(7)], Type_INT32)

InitLevels ==
    /\ dp_in \in LevelPages
    /\ dp_out = <<>>
    /\ sch_in = <<>>
    /\ col_in = <<>>
    /\ col_out = <<>>
    /\ RleIdle /\ ThriftIdle /\ FileIdle /\ PitIdle

\* ColumnReader::read_data_page(data, size, header, nullptr) of a column with
\* max_def_level > 0: what it returned, and the levels it decoded on the way
ReadLevelsPage ==
    /\ dp_in # <<>>
    /\ dp_out = <<>>
    /\ LET returned(x, d) ==
               dp_out' = <<[ok |-> x.ok, values |-> x.values, levels |-> d.levels]>>
           decoded(data) ==
               returned(read_data_page(data,
                                       [DataPageHeader EXCEPT !.num_values = dp_in.num_values],
                                       <<>>, Type_INT32, dp_in.max_def_level, 0),
                        read_levels(data, ThriftReader, dp_in.max_def_level,
                                    dp_in.num_values))
       IN  decoded(LevelPayload(dp_in))
    /\ UNCHANGED <<dp_in, sch_in, col_in, col_out, rleVars, thriftVars, fileVars, pitVars>>

NextLevels == ReadLevelsPage

SpecLevels == InitLevels /\ [][NextLevels]_vars

\* C24: a data page of N values of a column with max_def_level > 0 that is
\* decoded has N definition levels, each in 0..max_def_level, so that the
\* slots taken as non-null (those not below max_def_level) are as many as the
\* levels equal to max_def_level.
C24_LevelsInRange ==
    (dp_out # <<>> /\ dp_out[1].ok) =>
        /\ Len(dp_out[1].levels) = dp_in.num_values
        /\ \A i \in 1..Len(dp_out[1].levels) :
               dp_out[1].levels[i] \in 0..dp_in.max_def_level
        /\ count_present(dp_out[1].levels, dp_in.max_def_level)
               = count_non_null(dp_out[1].levels, dp_in.max_def_level)

----------------------------------------------------------------------------
(* The runs of a stream the encoder produced *)

\* the runs of a stream from pos on, as their indicators tell:
\* [repeated, count], count the values a run carries
RECURSIVE RunsFrom(_, _, _)
RunsFrom(data, pos, bw) ==
    LET run(ind) ==
            IF ind.val % 2 = 1
            THEN <<[repeated |-> FALSE, count |-> (ind.val \div 2) * 8]>>
                 \o RunsFrom(data, ind.pos + (ind.val \div 2) * bw, bw)
            ELSE <<[repeated |-> TRUE, count |-> ind.val \div 2]>>
                 \o RunsFrom(data, ind.pos + ((bw + 7) \div 8), bw)
    IN  IF pos >= Len(data) THEN <<>> ELSE run(read_varint32(data, pos, 0, 0))

RECURSIVE RunValues(_)
RunValues(runs) == IF runs = <<>> THEN 0 ELSE Head(runs).count + RunValues(Tail(runs))

\* C26: the encoder emits a repeated run only for a value that came four or
\* more times in a row (every repeated run of the stream has a count of at
\* least 4); the other values go out in bit-packed groups of eight, and only
\* the last group of the stream is padded.
C26_RunSelection ==
    rle_pc = "finished" =>
        LET runs == RunsFrom(rle_bytes, 0, rle_enc.bit_width) IN
        /\ \A i \in 1..Len(runs) : runs[i].repeated => runs[i].count >= MINIMUM_RLE_COUNT
        /\ RunValues(runs) >= Len(rle_xs)
        /\ RunValues(runs) - Len(rle_xs) < BP_BLOCK_SIZE
        /\ RunValues(runs) > Len(rle_xs) => ~runs[Len(runs)].repeated

----------------------------------------------------------------------------
(* The walk over the pages of a chunk when the page index is built *)

\* C27: on a file of the writer, whose chunks hold a dictionary page and
\* data pages only, the loop of build_page_index over the pages of every
\* chunk stops, when the values of its data pages reach the chunk's
\* num_values: open() does not run for ever.
C27_WalkTerminates == r_status # "hang"


\* C28: whenever the 32-bit length stored in the trailer, taken as a number of
\* [0, 2^32), plus 8 exceeds the file's size, open() returns false: it reads
\* no descriptor for a length that reaches before the start of the file.
C28_LengthChecked ==
    LET file == writer.file
        trailer == SubSeq(file, Len(file) - 7, Len(file))
        exceeds == \/ footer_length_top(trailer) = 1
                   \/ footer_length_low(trailer) > Len(file) - 8
    IN  (r_status # "none" /\ Len(file) >= 12 /\ exceeds) => r_status = "false"

----------------------------------------------------------------------------
(* write_row_group with the wrong number of column buffers, and after       *)
(* close(): the writer alone, no reader.                                    *)

\* the row groups of the writer's schema with the last buffer left out, or
\* with the first buffer given twice
MiscountedInputs(wr) ==
    UNION {{SubSeq(columns, 1, Len(columns) - 1), <<columns[1]>> \o columns} :
              columns \in RowGroupInputs(wr)}

\* writer.write_row_group(columns), columns.size() != columns_.size()
WriteRowGroupMiscounted ==
    /\ w_alive
    /\ \E columns \in MiscountedInputs(writer) :
          LET returned(x) ==
                  /\ writer' = x.w
                  /\ w_call' = [call |-> "write_row_group", thrown |-> x.thrown,
                                was_closed |-> writer.closed_,
                                num_columns |-> Len(columns)]
                  /\ w_written' = IF x.thrown THEN w_written
                                  ELSE [i \in 1..Len(w_written) |->
                                           w_written[i] \o columns[i]]
          IN  returned(write_row_group(writer, columns))
    /\ UNCHANGED <<w_alive, readerVars, iterVars, rleVars, thriftVars, pitVars, unitVars>>

NextReject == WriteRowGroup \/ WriteRowGroupMiscounted \/ Close

SpecReject == Init /\ [][NextReject]_vars

\* C29: write_row_group raises an error exactly when the writer is closed or
\* the number of column buffers differs from the number of column specs, and
\* the rejected call writes no byte to the file, records no row group and
\* leaves the total row count as it was: a close() after it writes the file
\* that a close() in its place would have written.
C29_RejectedChangesNothing ==
    [][w_call'.call = "write_row_group"
         => LET rejected == \/ writer.closed_
                            \/ w_call'.num_columns # Len(writer.columns_)
            IN  /\ w_call'.thrown <=> rejected
                /\ w_call'.thrown
                     => /\ writer'.file = writer.file
                        /\ writer'.row_groups_ = writer.row_groups_
                        /\ writer'.total_rows_ = writer.total_rows_
                        /\ writer'.closed_ = writer.closed_
                        /\ close(writer').file = close(writer).file]_vars

\* a call with one buffer too few was rejected by an open writer that holds
\* a row group
C29_Witness ==
    /\ w_call.call = "write_row_group"
    /\ w_call.thrown
    /\ ~w_call.was_closed
    /\ w_call.num_columns = Len(writer.columns_) - 1
    /\ Len(writer.row_groups_) = 1
    /\ writer.total_rows_ = 2

----------------------------------------------------------------------------
(* ColumnReader::read_pages on one chunk of a finished file: the reader     *)
(* builds a ColumnReader over the chunk of a row group and a leaf column,   *)
(* as read_column_by_idx does, and asks it for its pages.                   *)

\* ColumnReader(read_range, chunk, type, max_def_level, max_rep_level)
\* .read_pages() on the chunk of a row group and a column
ReadPages ==
    /\ r_status = "ok"
    /\ r_calls < MaxCalls
    /\ r_calls' = r_calls + 1
    /\ \E row_group_idx \in 0..(Len(reader.metadata_.row_groups) - 1),
          col_idx \in 0..(Len(reader.columns_) - 1) :
          LET returned(x) ==
                  /\ r_res' = [NoRead EXCEPT !.op = "read_pages",
                                             !.row_group_idx = row_group_idx,
                                             !.col_idx = col_idx,
                                             !.status = x.status, !.values = x.pages]
                  /\ reader' = [reader EXCEPT !.fail = x.fail]
          IN  returned(read_pages(writer.file, reader.fail,
                                  reader.metadata_.row_groups[row_group_idx + 1]
                                      .columns[reader.columns_[col_idx + 1].column_index + 1],
                                  reader.columns_[col_idx + 1]))
    /\ UNCHANGED <<writerVars, r_status, iterVars, rleVars, thriftVars, pitVars, unitVars>>

NextReadPages == WriteRowGroup \/ Destroy \/ Open \/ ReadPages

SpecReadPages == Init /\ [][NextReadPages]_vars

\* the values of the data pages, in page order
RECURSIVE DataPageValues(_)
DataPageValues(pages) ==
    IF pages = <<>> THEN <<>>
    ELSE (IF Head(pages).type = DATA_PAGE THEN Head(pages).values ELSE <<>>)
         \o DataPageValues(Tail(pages))

\* C30: read_pages ends as read_all on the same chunk does, from the same
\* state of the stream; when they return, the values of the data-page
\* entries of read_pages, put end to end in page order, are the sequence
\* read_all returns, the entries are numbered from 0 in page order, and the
\* entry of the dictionary page holds no values (its num_values is the
\* number of entries of the dictionary).
C30_PagesAsReadAll ==
    [][r_calls' # r_calls
         => LET pages == r_res'.values
                all == read_column_by_idx(reader, writer.file, r_res'.row_group_idx,
                                          r_res'.col_idx)
            IN  /\ r_res'.status = all.status
                /\ reader'.fail = all.fail
                /\ r_res'.status = "ok"
                     => /\ DataPageValues(pages) = all.values
                        /\ \A k \in 1..Len(pages) :
                              /\ pages[k].page_num = k - 1
                              /\ pages[k].type \in {DICTIONARY_PAGE, DATA_PAGE}
                              /\ pages[k].type = DICTIONARY_PAGE
                                    => pages[k].values = <<>>
                              /\ pages[k].type = DATA_PAGE
                                    => Len(pages[k].values) = pages[k].num_values]_vars

\* read_pages returned a dictionary page of one entry and a data page of ten
\* values, read from a stream that has not failed
C30_Witness ==
    /\ r_res.op = "read_pages"
    /\ r_res.status = "ok"
    /\ ~reader.fail
    /\ Len(r_res.values) = 2
    /\ r_res.values[1].type = DICTIONARY_PAGE
    /\ r_res.values[1].num_values = 1
    /\ r_res.values[1].values = <<>>
    /\ r_res.values[2].type = DATA_PAGE
    /\ Len(r_res.values[2].values) = PatternRows
====
